---- MODULE Spec2Model ----
(***************************************************************************)
(* Verification model of the SEO assistant chat client:                    *)
(*   - parseMessageContent (section extractor, MessageBubble)              *)
(*   - the citation de-duplication of generateText                         *)
(*   - useTypingEffect / hasAnimated (incremental reveal)                  *)
(*   - startPlayback / handleToggleSpeech (speech playback)                *)
(*   - handleSubmit, the session log of Home and its storage               *)
(*   - Toast under showToast                                               *)
(*   - markdownToHTML (escaping, code, tables, paragraphs) of exportToPDF  *)
(*                                                                         *)
(* Texts are sequences of tokens.  Every token stands for one fixed        *)
(* literal piece of text (its UTF-16 length is TokLen); the regular        *)
(* expressions of the source are translated one by one into operators      *)
(* over such sequences.                                                    *)
(***************************************************************************)
EXTENDS Integers, Sequences, FiniteSets, TLC

\* ------------------------------------------------------------------------
\* Tokens
\* ------------------------------------------------------------------------
SP    == "sp"                             \* one blank
NL    == "nl"                             \* one line feed
STAR2 == "**"
DASH3 == "---"
HASH2 == "##"
COLON == ":"
TOPEN == "<thinking>"
TCLOSE == "</thinking>"
BOPEN == "[Reasoning]"
BCLOSE == "[/Reasoning]"
BULB  == "U+1F4A1"                        \* the light-bulb emoji (one code point, two UTF-16 units)
MOJI  == "U+00F0 U+0178 U+2019 U+00A1"    \* the four characters spelled in the promo patterns of the source
NEED  == "Need Professional SEO Help?"
RRANK == "Rabbit Rank"
RRCOM == "rabbitrank.com"
SUCC  == "success."
NULL  == <<"null">>                       \* JavaScript null (no text is this sequence)

Min(S) == CHOOSE m \in S : \A n \in S : m <= n
Max(S) == CHOOSE m \in S : \A n \in S : m >= n

\* length of the literal a token stands for (String.prototype.length)
TokLen(t) ==
    CASE t \in {SP, NL, COLON, "x"} -> 1
      [] t \in {STAR2, HASH2, BULB}  -> 2
      [] t = DASH3      -> 3
      [] t = "w4"       -> 4
      [] t = MOJI       -> 4
      [] t = "Final"    -> 5
      [] t = "Answer"   -> 6
      [] t \in {"Response", "Thinking", SUCC} -> 8
      [] t = "Reasoning" -> 9
      [] t \in {"w10", TOPEN} -> 10
      [] t \in {"w11", TCLOSE, BOPEN, RRANK} -> 11
      [] t = BCLOSE     -> 12
      [] t = RRCOM      -> 14
      [] t = NEED       -> 27
      [] OTHER          -> 1

RECURSIVE Length(_)
Length(s) == IF s = <<>> THEN 0 ELSE TokLen(Head(s)) + Length(Tail(s))

IsWS(t) == t \in {SP, NL}

\* tokens whose first character is a word character (for \b)
IsWordTok(t) == t \in {"x", "w4", "w10", "w11", "Final", "Answer", "Response",
                       "Thinking", "Reasoning", NEED, RRANK, RRCOM, SUCC}

At(s, i) == IF i \in 1..Len(s) THEN s[i] ELSE "EOS"

\* position reached by a greedy \s* that starts at i
SkipWS(s, i) ==
    LET nonws == {j \in i..Len(s) : ~IsWS(s[j])}
    IN  IF nonws = {} THEN Len(s) + 1 ELSE Min(nonws)

\* String.prototype.trim
Trim(s) ==
    LET nonws == {j \in 1..Len(s) : ~IsWS(s[j])}
    IN  IF nonws = {} THEN <<>> ELSE SubSeq(s, Min(nonws), Max(nonws))

From(s, i) == SubSeq(s, i, Len(s))

\* s without the positions a..b
Cut(s, a, b) == SubSeq(s, 1, a - 1) \o SubSeq(s, b + 1, Len(s))

LitAt(s, i, lit) == i >= 1 /\ i + Len(lit) - 1 <= Len(s) /\ SubSeq(s, i, i + Len(lit) - 1) = lit

\* String.prototype.indexOf (1-based; 0 when absent)
IndexOf(s, sub) ==
    LET hits == {i \in 1..(Len(s) + 1) : LitAt(s, i, sub)}
    IN  IF hits = {} THEN 0 ELSE Min(hits)

\* ^ under the m flag
LineStart(s, i) == i = 1 \/ At(s, i - 1) = NL

\* (Answer|Final\s*Answer|Response) at i: position after the match, 0 if none
AnswerWordEnd(s, i) ==
    IF At(s, i) \in {"Answer", "Response"} THEN i + 1
    ELSE IF At(s, i) = "Final" /\ At(s, SkipWS(s, i + 1)) = "Answer" THEN SkipWS(s, i + 1) + 1
    ELSE 0

\* \*\*(Answer|Final\s*Answer|Response):\*\* at j: position after the match, 0 if none
BoldAnswerEnd(s, j) ==
    LET e == AnswerWordEnd(s, j + 1)
    IN  IF At(s, j) = STAR2 /\ e # 0 /\ At(s, e) = COLON /\ At(s, e + 1) = STAR2 THEN e + 2 ELSE 0

\* ---\s*(Answer|Final\s*Answer|Response)\s*--- at j
DashAnswerEnd(s, j) ==
    LET e == AnswerWordEnd(s, SkipWS(s, j + 1))
    IN  IF At(s, j) = DASH3 /\ e # 0 /\ At(s, SkipWS(s, e)) = DASH3 THEN SkipWS(s, e) + 1 ELSE 0

\* (Answer|Final\s*Answer|Response): at j
PlainAnswerEnd(s, j) ==
    LET e == AnswerWordEnd(s, j)
    IN  IF e # 0 /\ At(s, e) = COLON THEN e + 1 ELSE 0

\* #{2,3}\s*(Answer|Final\s*Answer|Response) at j: position after the word
HeaderAnswerEnd(s, j) ==
    IF At(s, j) = HASH2 THEN AnswerWordEnd(s, SkipWS(s, j + 1)) ELSE 0

\* last line feed of the white-space run that starts at i (0 if it has none):
\* where \s*[\r\n]+ ends after backtracking
LastNLInRun(s, i) ==
    LET nls == {j \in i..(SkipWS(s, i) - 1) : s[j] = NL}
    IN  IF nls = {} THEN 0 ELSE Max(nls)

\* ------------------------------------------------------------------------
\* parseMessageContent: thresholds
\* ------------------------------------------------------------------------
MinSectionLen   == 10     \* reasoningText.length > 10 and answerText.length > 10
MinMainLen      == 5      \* mainContent.length < 5
MinReasoningLen == 20     \* reasoning.length > 20

Falsy(r) == r = NULL \/ r = <<>>

\* `${a}\n\n${b}`
Join2(a, b) == a \o <<NL, NL>> \o b

AcceptedLonger(reasoningText, answerText) ==
    /\ reasoningText # <<>> /\ Length(reasoningText) > MinSectionLen + 1
    /\ answerText # <<>>    /\ Length(answerText) > MinSectionLen + 1

\* a variant of the test that does not look at the answer's length
AcceptedAnyAnswer(reasoningText, answerText) ==
    /\ reasoningText # <<>> /\ Length(reasoningText) > MinSectionLen
    /\ answerText # <<>>

\* "Only accept if both reasoning and answer have substantial content"
Accepted(reasoningText, answerText) ==
    /\ reasoningText # <<>> /\ Length(reasoningText) > MinSectionLen
    /\ answerText # <<>>    /\ Length(answerText) > MinSectionLen

\* ---- /<thinking>([\s\S]*?)<\/thinking>/gi : the spans of all matches from p on
RECURSIVE ThinkingSpans(_, _)
ThinkingSpans(s, p) ==
    LET opens == {i \in p..Len(s) : s[i] = TOPEN /\ \E j \in (i + 1)..Len(s) : s[j] = TCLOSE}
    IN  IF opens = {} THEN <<>>
        ELSE LET i == Min(opens)
                 j == Min({k \in (i + 1)..Len(s) : s[k] = TCLOSE})
             IN  <<<<i, j>>>> \o ThinkingSpans(s, j + 1)

NotThinkingTag(t) == t \notin {TOPEN, TCLOSE}

\* m.replace(/<\/?thinking>/gi, '').trim() for each match, .filter(Boolean).join('\n\n')
RECURSIVE JoinThinking(_, _)
JoinThinking(s, spans) ==
    IF spans = <<>> THEN <<>>
    ELSE LET m    == Trim(SelectSeq(SubSeq(s, Head(spans)[1], Head(spans)[2]), NotThinkingTag))
             rest == JoinThinking(s, Tail(spans))
         IN  IF m = <<>> THEN rest
             ELSE IF rest = <<>> THEN m
             ELSE Join2(m, rest)

\* s.replace(/<thinking>[\s\S]*?<\/thinking>/gi, ''): the tokens from i on outside the spans
RECURSIVE RemoveSpansFrom(_, _, _)
RemoveSpansFrom(s, spans, i) ==
    IF i > Len(s) THEN <<>>
    ELSE (IF \E k \in 1..Len(spans) : spans[k][1] <= i /\ i <= spans[k][2] THEN <<>> ELSE <<s[i]>>)
         \o RemoveSpansFrom(s, spans, i + 1)

RemoveSpans(s, spans) == RemoveSpansFrom(s, spans, 1)

\* lines 89-100
ExtractThinkingTags(st) ==
    LET spans == ThinkingSpans(st.mainContent, 1)
        allThinking == JoinThinking(st.mainContent, spans)
    IN  IF spans = <<>> THEN st
        ELSE [reasoning   |-> IF allThinking # <<>> THEN allThinking ELSE st.reasoning,
              mainContent |-> Trim(RemoveSpans(st.mainContent, spans))]

\* lines 102-110: /\[Reasoning\]([\s\S]*?)\[\/Reasoning\]/i
ExtractBracketTags(st) ==
    LET s == st.mainContent
        opens == {i \in 1..Len(s) : s[i] = BOPEN /\ \E j \in (i + 1)..Len(s) : s[j] = BCLOSE}
    IN  IF opens = {} THEN st
        ELSE LET i == Min(opens)
                 j == Min({k \in (i + 1)..Len(s) : s[k] = BCLOSE})
                 extracted == Trim(SubSeq(s, i + 1, j - 1))
             IN  [reasoning   |-> IF extracted # <<>>
                                  THEN (IF ~Falsy(st.reasoning) THEN Join2(st.reasoning, extracted)
                                        ELSE extracted)
                                  ELSE st.reasoning,
                  mainContent |-> Trim(Cut(s, i, j))]

\* a split match: [found, reasoningText, answerText]
NoSplit == [found |-> FALSE, reasoningText |-> <<>>, answerText |-> <<>>]

\* /\*\*Reasoning:\*\*\s*([\s\S]*?)\*\*(Answer|Final\s*Answer|Response):\*\*\s*([\s\S]*)/i
BoldMatch(s) ==
    LET heads == {i \in 1..Len(s) :
                    /\ LitAt(s, i, <<STAR2, "Reasoning", COLON, STAR2>>)
                    /\ \E j \in (i + 4)..Len(s) : BoldAnswerEnd(s, j) # 0}
    IN  IF heads = {} THEN NoSplit
        ELSE LET i == Min(heads)
                 k == SkipWS(s, i + 4)
                 j == Min({n \in k..Len(s) : BoldAnswerEnd(s, n) # 0})
             IN  [found |-> TRUE,
                  reasoningText |-> Trim(SubSeq(s, k, j - 1)),
                  answerText    |-> Trim(From(s, BoldAnswerEnd(s, j)))]

\* /^<word>:\s*([\s\S]*?)\n(Answer|Final\s*Answer|Response):\s*([\s\S]*)/im
\* for <word> = Reasoning (line 132) and <word> = Thinking (line 148)
PlainMatch(s, word) ==
    LET tails(i) == {j \in (i + 2)..Len(s) : s[j] = NL /\ PlainAnswerEnd(s, j + 1) # 0}
        heads == {i \in 1..Len(s) :
                    LineStart(s, i) /\ LitAt(s, i, <<word, COLON>>) /\ tails(i) # {}}
    IN  IF heads = {} THEN NoSplit
        ELSE LET i == Min(heads)
                 k == SkipWS(s, i + 2)
                 late == {j \in tails(i) : j >= k}
                 \* \s* is greedy: a label behind the white space is preferred; otherwise
                 \* \s* gives back the line feed in front of the label and group 1 is empty
                 j == IF late # {} THEN Min(late) ELSE Max(tails(i))
             IN  [found |-> TRUE,
                  reasoningText |-> IF late # {} THEN Trim(SubSeq(s, k, j - 1)) ELSE <<>>,
                  answerText    |-> Trim(From(s, PlainAnswerEnd(s, j + 1)))]

\* /---\s*Reasoning\s*---\s*([\s\S]*?)---\s*(Answer|Final\s*Answer|Response)\s*---\s*([\s\S]*)/i
DashReasoningEnd(s, i) ==
    LET w == SkipWS(s, i + 1)
    IN  IF At(s, i) = DASH3 /\ At(s, w) = "Reasoning" /\ At(s, SkipWS(s, w + 1)) = DASH3
        THEN SkipWS(s, w + 1) + 1 ELSE 0

DashMatch(s) ==
    LET heads == {i \in 1..Len(s) :
                    /\ DashReasoningEnd(s, i) # 0
                    /\ \E j \in DashReasoningEnd(s, i)..Len(s) : DashAnswerEnd(s, j) # 0}
    IN  IF heads = {} THEN NoSplit
        ELSE LET i == Min(heads)
                 k == SkipWS(s, DashReasoningEnd(s, i))
                 j == Min({n \in k..Len(s) : DashAnswerEnd(s, n) # 0})
             IN  [found |-> TRUE,
                  reasoningText |-> Trim(SubSeq(s, k, j - 1)),
                  answerText    |-> Trim(From(s, DashAnswerEnd(s, j)))]

\* first part (line 180):
\* /^#{2,3}\s*Reasoning\s*[\r\n]+([\s\S]*?)(?=\n#{2,3}\s*(Answer|Final\s*Answer|Response)\b)/im
\* the look-ahead at j: a line feed, then the answer header, then a word boundary
HeaderLookahead(s, j) ==
    /\ At(s, j) = NL
    /\ HeaderAnswerEnd(s, j + 1) # 0
    /\ ~IsWordTok(At(s, HeaderAnswerEnd(s, j + 1)))

\* [found, from, to, reasoningText]: the span of match[0] and the trimmed group 1
HeaderReasoningMatch(s) ==
    LET wordAt(i) == SkipWS(s, i + 1)                 \* position of "Reasoning"
        nl(i)     == LastNLInRun(s, wordAt(i) + 1)    \* where \s*[\r\n]+ ends at the latest
        firstNL(i) == Min({j \in (wordAt(i) + 1)..Len(s) : s[j] = NL})
        heads == {i \in 1..Len(s) :
                    /\ LineStart(s, i) /\ s[i] = HASH2 /\ At(s, wordAt(i)) = "Reasoning"
                    /\ nl(i) # 0
                    /\ \E j \in (firstNL(i) + 1)..Len(s) : HeaderLookahead(s, j)}
    IN  IF heads = {} THEN [found |-> FALSE, from |-> 0, to |-> 0, reasoningText |-> <<>>]
        ELSE LET i == Min(heads)
                 g == nl(i) + 1
                 late == {j \in g..Len(s) : HeaderLookahead(s, j)}
                 \* otherwise the look-ahead sits inside the white space after the header
                 early == {j \in (firstNL(i) + 1)..(g - 1) : HeaderLookahead(s, j)}
                 j == IF late # {} THEN Min(late) ELSE Max(early)
             IN  [found |-> TRUE, from |-> i, to |-> j - 1,
                  reasoningText |-> IF late # {} THEN Trim(SubSeq(s, g, j - 1)) ELSE <<>>]

\* line 186: afterReasoning.match(/^#{2,3}\s*(Answer|Final\s*Answer|Response)\s*[\r\n]+([\s\S]*)/im)
\* [found, answerText]
AnswerHeaderMatch(a) ==
    LET heads == {i \in 1..Len(a) :
                    /\ LineStart(a, i) /\ HeaderAnswerEnd(a, i) # 0
                    /\ LastNLInRun(a, HeaderAnswerEnd(a, i)) # 0}
    IN  IF heads = {} THEN [found |-> FALSE, answerText |-> <<>>]
        ELSE [found |-> TRUE, answerText |-> Trim(From(a, HeaderAnswerEnd(a, Min(heads))))]

\* lines 177-197
\* line 185: mainContent.slice(mainContent.indexOf(match[0]) + match[0].length)
AfterReasoning(s, m0) == From(s, IndexOf(s, m0) + Len(m0))

\* lines 188-195, for the two matches h and a
HeaderSplit(h, a) ==
    IF h.found /\ a.found
    THEN [found |-> TRUE, reasoningText |-> h.reasoningText, answerText |-> a.answerText]
    ELSE NoSplit

\* lines 182-196, for the match h of the first part
HeaderMatchAfter(s, h) ==
    HeaderSplit(h, AnswerHeaderMatch(AfterReasoning(s, SubSeq(s, h.from, h.to))))

HeaderMatch(s) == HeaderMatchAfter(s, HeaderReasoningMatch(s))

\* lines 117-126: the bold split appends to the reasoning found so far
ApplyBoldMatch(st, m) ==
    IF m.found /\ Accepted(m.reasoningText, m.answerText)
    THEN [reasoning   |-> IF ~Falsy(st.reasoning) THEN Join2(st.reasoning, m.reasoningText)
                          ELSE m.reasoningText,
          mainContent |-> m.answerText]
    ELSE st

ApplyBold(st) == ApplyBoldMatch(st, BoldMatch(st.mainContent))

\* lines 129-197: each later split is tried only while no reasoning was found
ApplySplit(st, m) ==
    IF Falsy(st.reasoning) /\ m.found /\ Accepted(m.reasoningText, m.answerText)
    THEN [reasoning |-> m.reasoningText, mainContent |-> m.answerText]
    ELSE st

ApplyPlain(st)    == IF Falsy(st.reasoning) THEN ApplySplit(st, PlainMatch(st.mainContent, "Reasoning")) ELSE st
ApplyThinking(st) == IF Falsy(st.reasoning) THEN ApplySplit(st, PlainMatch(st.mainContent, "Thinking")) ELSE st
ApplyDash(st)     == IF Falsy(st.reasoning) THEN ApplySplit(st, DashMatch(st.mainContent)) ELSE st
ApplyHeader(st)   == IF Falsy(st.reasoning) THEN ApplySplit(st, HeaderMatch(st.mainContent)) ELSE st

\* lines 84-197
ExtractReasoning(text) ==
    ApplyHeader(ApplyDash(ApplyThinking(ApplyPlain(ApplyBold(
        ExtractBracketTags(ExtractThinkingTags([reasoning |-> NULL, mainContent |-> text])))))))

\* ---- lines 199-203: "Clean up any leftover answer labels at the start of mainContent"
\* line 200: .replace(/^\*\*(Answer|Final\s*Answer|Response):\*\*\s*/i, '').trim()
StripBoldLabel(s) ==
    Trim(IF BoldAnswerEnd(s, 1) # 0 THEN From(s, SkipWS(s, BoldAnswerEnd(s, 1))) ELSE s)

\* line 201: .replace(/^---\s*(Answer|Final\s*Answer|Response)\s*---\s*/i, '').trim()
StripDashLabel(s) ==
    Trim(IF DashAnswerEnd(s, 1) # 0 THEN From(s, SkipWS(s, DashAnswerEnd(s, 1))) ELSE s)

\* line 202: .replace(/^#{2,3}\s*(Answer|Final\s*Answer|Response)\s*[\r\n]+/im, '').trim()
\* (m flag, no g flag: the first header line anywhere in the text)
StripHeaderLabel(s) ==
    LET heads == {i \in 1..Len(s) :
                    /\ LineStart(s, i) /\ HeaderAnswerEnd(s, i) # 0
                    /\ LastNLInRun(s, HeaderAnswerEnd(s, i)) # 0}
    IN  Trim(IF heads = {} THEN s
             ELSE Cut(s, Min(heads), LastNLInRun(s, HeaderAnswerEnd(s, Min(heads)))))

\* line 203: .replace(/^(Answer|Final\s*Answer|Response):\s*/i, '').trim()
StripPlainLabel(s) ==
    Trim(IF PlainAnswerEnd(s, 1) # 0 THEN From(s, SkipWS(s, PlainAnswerEnd(s, 1))) ELSE s)

\* a variant that strips the plain label only and trims nothing
CleanupLabelsNoTrim(s) ==
    IF PlainAnswerEnd(s, 1) # 0 THEN From(s, SkipWS(s, PlainAnswerEnd(s, 1))) ELSE s

CleanupLabels(s) == StripPlainLabel(StripHeaderLabel(StripDashLabel(StripBoldLabel(s))))

\* ---- lines 205-218: promotion
\* <bulb>\s*\*?\*?Need Professional SEO Help\?\*?\*? at i, with the lead-in character(s)
\* spelled in the pattern: position after NEED, 0 if none
PromoHeadEnd(s, i, lead) ==
    LET a == SkipWS(s, i + 1)
        b == IF At(s, a) = STAR2 THEN a + 1 ELSE a
    IN  IF At(s, i) = lead /\ At(s, b) = NEED THEN b + 1 ELSE 0

\* position of the lead-in for a match of promoPatterns[0] starting at i:
\* ---\s*\n?\s* then the lead-in
RuleLead(s, i) == IF At(s, i) = DASH3 THEN SkipWS(s, i + 1) ELSE 0

\* [\s\S]*?(?:Rabbit Rank|rabbitrank\.com)[\s\S]*?(?:success\.|$) from position e on:
\* last position of the match, 0 if the name never follows
PromoTailEnd(s, e) ==
    LET names == {j \in e..Len(s) : s[j] \in {RRANK, RRCOM}}
    IN  IF names = {} THEN 0
        ELSE LET ends == {j \in (Min(names) + 1)..Len(s) : s[j] = SUCC}
             IN  IF ends = {} THEN Len(s) ELSE Min(ends)

\* the lead-in the two patterns of lines 207-208 spell
PromoLead == MOJI

\* [found, from, to, lead]: span of match[0], and the position of the lead-in
PromoMatch(s, withRule) ==
    LET leadPos(i) == IF withRule THEN RuleLead(s, i) ELSE i
        ok(i) == /\ leadPos(i) # 0
                 /\ PromoHeadEnd(s, leadPos(i), PromoLead) # 0
                 /\ PromoTailEnd(s, PromoHeadEnd(s, leadPos(i), PromoLead)) # 0
        starts == {i \in 1..Len(s) : ok(i)}
    IN  IF starts = {} THEN [found |-> FALSE, from |-> 0, to |-> 0, lead |-> 0]
        ELSE LET i == Min(starts)
             IN  [found |-> TRUE, from |-> i,
                  to |-> PromoTailEnd(s, PromoHeadEnd(s, leadPos(i), PromoLead)),
                  lead |-> leadPos(i)]

\* lines 211-212: the first pattern that matches
FirstPromoMatch(m1, m2) == IF m1.found THEN m1 ELSE m2

\* a variant that leaves the white space around what remains of mainContent
RemovePromoNoTrim(s, m) ==
    IF ~m.found THEN [rabbitRankPromo |-> NULL, mainContent |-> s]
    ELSE [rabbitRankPromo |-> Trim(SubSeq(s, m.lead, m.to)),
          mainContent     |-> Cut(s, m.from, m.to)]

\* lines 213-216, for the match m:
\* match[0].replace(/^---\s*\n?\s*/, '').trim(); mainContent.replace(match[0], '').trim()
RemovePromo(s, m) ==
    IF ~m.found THEN [rabbitRankPromo |-> NULL, mainContent |-> s]
    ELSE [rabbitRankPromo |-> Trim(SubSeq(s, m.lead, m.to)),
          mainContent     |-> Trim(Cut(s, m.from, m.to))]

\* lines 211-218: [promo, mainContent]
ExtractPromo(s) == RemovePromo(s, FirstPromoMatch(PromoMatch(s, TRUE), PromoMatch(s, FALSE)))

\* lines 205-218 applied to the state r left by lines 84-203
WithPromo(r, p) ==
    [reasoning |-> r.reasoning, mainContent |-> p.mainContent,
     rabbitRankPromo |-> p.rabbitRankPromo]

ExtractPromoAfter(r) == WithPromo(r, ExtractPromo(CleanupLabels(r.mainContent)))

\* lines 84-218: the three values before the final validation
Extracted(text) == ExtractPromoAfter(ExtractReasoning(text))

ValidateShortReasoning(text, e) ==
    IF (e.mainContent = <<>> \/ Length(e.mainContent) < MinMainLen)
       /\ ~(~Falsy(e.reasoning) /\ Length(e.reasoning) > MinSectionLen)
    THEN [reasoning |-> NULL, mainContent |-> text, rabbitRankPromo |-> e.rabbitRankPromo]
    ELSE e

ValidateNever(text, e) == e

\* lines 220-231: "Final validation"
Validate(text, e) ==
    IF (e.mainContent = <<>> \/ Length(e.mainContent) < MinMainLen)
       /\ ~(~Falsy(e.reasoning) /\ Length(e.reasoning) > MinReasoningLen)
    THEN [reasoning |-> NULL, mainContent |-> text, rabbitRankPromo |-> e.rabbitRankPromo]
    ELSE e

\* lines 84-234
parseMessageContent(text) == Validate(text, Extracted(text))

\* ------------------------------------------------------------------------
\* State
\* ------------------------------------------------------------------------
VARIABLES
    \* parseMessageContent
    rawText,        \* message.text handed to parseMessageContent
    parsed,         \* what parseMessageContent returned for it (NoResult before the call)
    \* generateText
    grounding,      \* candidate.groundingMetadata of the API response
    sources,        \* the sources generateText returns (NotReturned before)
    \* one MessageBubble
    msgSender,      \* message.sender
    mainText,       \* mainContent, as the sequence of its characters
    bubbleMounted,  \* the bubble is rendered (its message is in visibleMessages)
    hasAnimated,    \* useState(false), line 496
    displayedText,  \* useTypingEffect state, line 52
    isComplete,     \* useTypingEffect state, line 53
    pendingChunks,  \* queued setDisplayedText updaters (their chunkSize), not yet rendered
    typingDeps,     \* `enabled` as seen by the typing effect that ran last ("none" before)
    timerLive,      \* the interval of line 66 is set and not cleared
    index,          \* `let index` of line 64
    ticks,          \* interval callbacks run since the interval was set
    revealDone,     \* the bubble recorded a completed reveal (setHasAnimated(true)) once
    liveTimers,     \* intervals set by line 66 and not cleared yet
    textChanges,    \* renders of the bubble with another text so far
    \* speech playback of that bubble
    isSpeaking,     \* useState(false), line 497
    isPlaying,      \* useState(false), line 498
    audioUrl,       \* useState(null), line 499 (0 is null)
    audioRef,       \* audioRef.current: index into audios (0 is null)
    effectUrl,      \* audioUrl captured by the cleanup registered at line 519
    audios,         \* the Audio elements created so far
    synthPending,   \* a generateSpeech call is awaited
    synthCalls,     \* generateSpeech calls made so far (line 598)
    urlCount,       \* object URLs generateSpeech created
    revokedUrls,    \* object URLs revoked
    lastNotify,     \* last onNotify message of the speech controller
    toggles,        \* clicks on the listen button so far
    \* the page (Home)
    pageMounted,    \* useState(false), page.tsx line 508: the stored session was loaded
    messages,       \* useState([]), line 500: the session log
    isProcessing,   \* useState(false), line 501
    inFlight,       \* the generateText requests awaited (their numbers)
    nextReq,        \* generateText requests made so far
    toastMessage,   \* useState(null), line 505
    submitTries,    \* submit attempts so far, from any entry point
    lastSubmit,     \* the last attempt: its entry point, whether a request was awaited, whether it was accepted
    newChats,       \* new chat / clear chat clicks so far
    pinnedMessageIds, \* useState([]), line 512
    searchQuery,    \* useState(''), line 510
    focusMode,      \* useState(false), line 511
    viewOps,        \* pin, search, focus and export clicks so far
    stored,         \* localStorage[STORAGE_KEY]: whether the key is present, and the list it holds
    writeFailed,    \* the last localStorage.setItem of the log threw
    storedMessages, \* `storedMessages` of the load effect, line 520 (NotRead before the effect ran)
    toastSeq,       \* showToast calls so far (the number of the toast shown last)
    toastVisible,   \* Toast: useState(false), Toast.tsx line 14
    toastTimer,     \* Toast: the 4000 ms timeout of line 24 is pending
    closeTimers,    \* Toast: pending setTimeout(onClose, 300) callbacks, each with the toast it was scheduled for
    \* exportToPDF
    content,        \* the markdown exportToPDF is called with, line 348
    mdTable,        \* the table the exported markdown holds (how its text was written)
    printed         \* markdownToHTML's result for it (NULL before the export)

parseVars  == <<rawText, parsed>>
sourceVars == <<grounding, sources>>
revealVars == <<msgSender, mainText, hasAnimated, displayedText, isComplete, pendingChunks,
                typingDeps, timerLive, index, ticks, revealDone, liveTimers, textChanges>>
speechVars == <<isSpeaking, isPlaying, audioUrl, audioRef, effectUrl, audios, synthPending,
                synthCalls, urlCount, revokedUrls, lastNotify, toggles>>
viewVars  == <<pinnedMessageIds, searchQuery, focusMode, viewOps>>
storeVars == <<stored, writeFailed, storedMessages>>
toastVars == <<toastSeq, toastVisible, toastTimer, closeTimers>>
sessionVars == <<pageMounted, messages, isProcessing, inFlight, nextReq, toastMessage,
                 submitTries, lastSubmit, newChats, viewVars, storeVars, toastVars>>
exportVars == <<content, mdTable, printed>>
vars == <<parseVars, sourceVars, bubbleMounted, revealVars, speechVars, sessionVars, exportVars>>

NoResult == [reasoning |-> NULL, mainContent |-> NULL, rabbitRankPromo |-> NULL]

\* ------------------------------------------------------------------------
\* Response texts the extractor is run on
\* ------------------------------------------------------------------------
MaxPad    == 1     \* blanks / line feeds around a text
MaxBlocks == 1     \* <thinking> blocks in front of a text

RECURSIVE Rep(_, _)
Rep(s, n) == IF n = 0 THEN <<>> ELSE s \o Rep(s, n - 1)

BoldReasoning == <<STAR2, "Reasoning", COLON, STAR2>>
BoldAnswer    == <<STAR2, "Answer", COLON, STAR2>>
PlainAnswer   == <<"Answer", COLON>>
Footer(lead)  == <<DASH3, NL, lead, SP, STAR2, NEED, STAR2, SP, "w4", SP, RRANK, SP, RRCOM, SP, "w4", SP, SUCC>>

ReasoningFillers == {<<>>, <<"w10">>, <<"w11">>, <<"w10", SP, "w10">>}
AnswerFillers    == {<<>>, <<"w4">>, <<"w4", "x">>, <<"w10">>, <<"w11">>}

ThinkingBlock(f) == <<TOPEN>> \o f \o <<TCLOSE, NL>>

Prefixes ==
    {<<>>, <<"w11", NL>>, <<BOPEN, "w11", BCLOSE, NL>>}
    \cup {Rep(ThinkingBlock(f), n) : n \in 1..MaxBlocks, f \in {<<"w11">>, <<"w10", SP, "w10">>}}

BoldOpener   == BoldReasoning \o <<SP>>
PlainOpener  == <<"Reasoning", COLON, SP>>
ThinkOpener  == <<"Thinking", COLON, SP>>
DashOpener   == <<DASH3, SP, "Reasoning", SP, DASH3, NL>>
HeaderOpener == <<HASH2, SP, "Reasoning", NL>>

BoldCloser   == <<NL>> \o BoldAnswer \o <<SP>>
PlainCloser  == <<NL, "Response", COLON, SP>>
DashCloser   == <<NL, DASH3, SP, "Final", SP, "Answer", SP, DASH3, NL>>
HeaderCloser == <<NL, HASH2, SP, "Answer", NL>>

\* <<reasoning label, answer label>>: none, the five formats, and mismatched ones
Splits ==
    {<< <<>>, <<>> >>,
     <<BoldOpener, BoldCloser>>, <<PlainOpener, PlainCloser>>, <<ThinkOpener, PlainCloser>>,
     <<DashOpener, DashCloser>>, <<HeaderOpener, HeaderCloser>>,
     <<BoldOpener, <<>> >>, << <<>>, BoldCloser>>, <<BoldOpener, HeaderCloser>>}

\* <<what the answer section starts with, what follows it>>
Bodies ==
    {<< <<>>, <<>> >>,
     << <<>>, <<NL>> \o Footer(MOJI)>>,
     << <<>>, <<NL>> \o Footer(BULB)>>,
     << <<>>, <<NL>> \o Footer(MOJI) \o <<NL>> \o Footer(MOJI)>>,
     <<PlainAnswer \o <<SP>>, <<>> >>,
     <<BoldAnswer \o <<SP>>, <<>> >>,
     <<BoldAnswer \o <<SP>>, <<NL>> \o Footer(MOJI)>>,
     <<<<DASH3, SP, "Answer", SP, DASH3, SP>>, <<>> >>,
     <<<<"w11", NL, HASH2, SP, "Answer", NL>>, <<>> >>}

\* the five formats, each with its own labels
Formats ==
    {<<BoldOpener, BoldCloser>>, <<PlainOpener, PlainCloser>>, <<ThinkOpener, PlainCloser>>,
     <<DashOpener, DashCloser>>, <<HeaderOpener, HeaderCloser>>}

\* a split with a short section on a line of its own, then a split with long sections
TwoSplits ==
    {pre \o f[1] \o r \o f[2] \o a \o <<NL>> \o g[1] \o <<"w11">> \o g[2] \o <<"w11">> :
        pre \in Prefixes, f \in Formats, g \in Formats,
        r \in {<<"w4">>, <<"w11">>}, a \in {<<"x">>}}

ParseInputs ==
    {Rep(<<NL>>, p) \o pre \o sp[1] \o r \o sp[2] \o b[1] \o a \o b[2] \o Rep(<<SP>>, p) :
        p \in 0..MaxPad, pre \in Prefixes, sp \in Splits, r \in ReasoningFillers,
        b \in Bodies, a \in AnswerFillers}
    \cup TwoSplits

NotReturned == <<[title |-> "none", uri |-> "none"]>>

ParseIdle   == rawText = <<>> /\ parsed = NoResult
SourcesIdle == grounding = [kind |-> "none", items |-> <<>>] /\ sources = NotReturned
RevealIdle ==
    /\ hasAnimated = FALSE /\ displayedText = <<>> /\ isComplete = FALSE
    /\ pendingChunks = <<>> /\ typingDeps = "none" /\ timerLive = FALSE
    /\ index = 0 /\ ticks = 0 /\ revealDone = FALSE /\ liveTimers = 0 /\ textChanges = 0
SpeechIdle ==
    /\ isSpeaking = FALSE /\ isPlaying = FALSE /\ audioUrl = 0 /\ audioRef = 0
    /\ effectUrl = 0 /\ audios = <<>> /\ synthPending = FALSE /\ synthCalls = 0 /\ urlCount = 0
    /\ revokedUrls = {} /\ lastNotify = "none" /\ toggles = 0
NoTable == [header |-> <<>>, sep |-> FALSE, rows |-> <<>>, pad |-> 0, nl |-> FALSE]
ExportIdle == content = <<>> /\ mdTable = NoTable /\ printed = NULL
NotRead == [read |-> FALSE, log |-> <<>>]
\* localStorage without the key
NoKey == [present |-> FALSE, log |-> <<>>]
NoSubmit == [entry |-> "none", busy |-> FALSE, accepted |-> FALSE]
\* Home and Toast as they are constructed
PageFresh ==
    /\ pageMounted = FALSE /\ messages = <<>> /\ isProcessing = FALSE /\ inFlight = {}
    /\ nextReq = 0 /\ toastMessage = "null" /\ submitTries = 0 /\ lastSubmit = NoSubmit
    /\ newChats = 0
    /\ pinnedMessageIds = <<>> /\ searchQuery = "" /\ focusMode = FALSE /\ viewOps = 0
    /\ writeFailed = FALSE /\ storedMessages = NotRead
    /\ toastSeq = 0 /\ toastVisible = FALSE /\ toastTimer = FALSE /\ closeTimers = {}
SessionIdle == PageFresh /\ stored = NoKey
NoBubble == msgSender = "ai" /\ mainText = <<>> /\ bubbleMounted = FALSE /\ RevealIdle /\ SpeechIdle

InitParse ==
    /\ SessionIdle /\ ExportIdle
    /\ rawText \in ParseInputs
    /\ parsed = NoResult
    /\ SourcesIdle /\ NoBubble

\* MessageBubble renders the message: line 503
Extract ==
    /\ UNCHANGED <<sessionVars, exportVars>>
    /\ parsed = NoResult
    /\ parsed' = parseMessageContent(rawText)
    /\ UNCHANGED <<rawText, sourceVars, bubbleMounted, revealVars, speechVars>>

NextParse == Extract

SpecParse == InitParse /\ [][NextParse]_vars

\* ------------------------------------------------------------------------
\* generateText: sources of a response (src/lib/gemini.ts lines 152-177)
\* ------------------------------------------------------------------------
MaxChunks == 3     \* grounding chunks of one response

Titles == {"t1", "t2"}
Uris   == {"u1", "u2", "u3"}
NoWeb  == [title |-> "none", uri |-> "none"]      \* a chunk without a `web` member
Chunks == {NoWeb} \cup [title : Titles, uri : Uris]

ChunkLists == UNION {[1..n -> Chunks] : n \in 0..MaxChunks}

HasWeb(chunk) == chunk # NoWeb

\* a.findIndex(v2 => v2.uri === uri), 1-based
FindLastIndex(a, uri) == Max({j \in 1..Len(a) : a[j].uri = uri})

FindIndex(a, uri) == Min({j \in 1..Len(a) : a[j].uri = uri})

\* sources.filter((v, i, a) => a.findIndex(v2 => v2.uri === v.uri) === i), from i on
RECURSIVE DedupeFrom(_, _)
DedupeFrom(a, i) ==
    IF i > Len(a) THEN <<>>
    ELSE (IF FindIndex(a, a[i].uri) = i THEN <<a[i]>> ELSE <<>>) \o DedupeFrom(a, i + 1)

RemoveDuplicateSources(a) == DedupeFrom(a, 1)

\* .filter(chunk => chunk.web).map(chunk => ({title: chunk.web.title, uri: chunk.web.uri}))
WebSources(items) == SelectSeq(items, HasWeb)

InitSources ==
    /\ SessionIdle /\ ExportIdle
    /\ grounding \in [kind : {"groundingChunks", "groundingAttributions"}, items : ChunkLists]
                     \cup {[kind |-> "none", items |-> <<>>]}
    /\ sources = NotReturned
    /\ ParseIdle /\ NoBubble

\* generateText returns {text, sources}
ReturnSources ==
    /\ UNCHANGED <<sessionVars, exportVars>>
    /\ sources = NotReturned
    /\ sources' = IF grounding.kind \in {"groundingChunks", "groundingAttributions"}
                  THEN RemoveDuplicateSources(WebSources(grounding.items))
                  ELSE RemoveDuplicateSources(<<>>)
    /\ UNCHANGED <<grounding, parseVars, bubbleMounted, revealVars, speechVars>>

NextSources == ReturnSources

SpecSources == InitSources /\ [][NextSources]_vars

\* ------------------------------------------------------------------------
\* MessageBubble: incremental reveal (useTypingEffect, hasAnimated)
\* ------------------------------------------------------------------------
MaxTextLen    == 7       \* characters of a mainContent
ChunkSize     == 3       \* Math.min(3, text.length - index)
LongThreshold == 3000    \* mainContent.length < 3000

\* text.slice(a, b)
Slice(text, a, b) == SubSeq(text, a + 1, IF b > Len(text) THEN Len(text) ELSE b)

\* the `enabled` argument of line 508
RevealEnabled == msgSender # "user" /\ ~hasAnimated /\ Len(mainText) < LongThreshold

DepsOf(enabled) == IF enabled THEN "enabled" ELSE "disabled"

\* line 608
contentToShow == IF hasAnimated THEN mainText ELSE displayedText

\* the queued updaters prev => prev + text.slice(index, index + chunkSize) run at
\* render time: each reads `index` as it is then
RECURSIVE ApplyUpdaters(_, _, _, _)
ApplyUpdaters(prev, chunks, text, idx) ==
    IF chunks = <<>> THEN prev
    ELSE ApplyUpdaters(prev \o Slice(text, idx, idx + Head(chunks)), Tail(chunks), text, idx)

\* ---- Audio elements: [url, status, promise]
\*   status:  "starting" (play() called), "playing", "paused", "ended", "error"
\*   promise: "pending", "rejected" (the catch callback has not run yet), "settled"
\* HTMLMediaElement.pause() on element a (0: audioRef.current is null)
Paused(as, a) ==
    IF a = 0 THEN as
    ELSE [as EXCEPT ![a] = [url     |-> @.url,
                            status  |-> IF @.status \in {"starting", "playing"} THEN "paused" ELSE @.status,
                            promise |-> IF @.status = "starting" THEN "rejected" ELSE @.promise]]

\* 1 for an interval that clearInterval still has to clear
Live(t) == IF t THEN 1 ELSE 0

\* a mainContent of exactly 3000 characters
LongText == [i \in 1..LongThreshold |-> i]

\* the texts the bubble is rendered with
Texts == {[i \in 1..n |-> i] : n \in 0..MaxTextLen} \cup {LongText}

InitReveal ==
    /\ SessionIdle /\ ExportIdle
    /\ msgSender \in {"user", "ai"}
    /\ mainText \in Texts
    /\ bubbleMounted = FALSE
    /\ RevealIdle /\ SpeechIdle /\ ParseIdle /\ SourcesIdle

\* the message enters visibleMessages (page.tsx lines 747-750, 1072-1081): a new
\* component instance, every useState at its initial value
MountBubble ==
    /\ UNCHANGED <<sessionVars, exportVars>>
    /\ ~bubbleMounted
    /\ bubbleMounted' = TRUE
    /\ hasAnimated' = FALSE /\ displayedText' = <<>> /\ isComplete' = FALSE
    /\ pendingChunks' = <<>> /\ typingDeps' = "none" /\ timerLive' = FALSE
    /\ UNCHANGED <<msgSender, mainText, index, ticks, revealDone, liveTimers, textChanges,
                   parseVars, sourceVars, speechVars>>

\* the message leaves visibleMessages (search filter, new chat): the effect cleanups of
\* line 77 and of lines 519-527 run and the instance is dropped
UnmountBubble ==
    /\ UNCHANGED <<sessionVars, exportVars>>
    /\ bubbleMounted
    /\ bubbleMounted' = FALSE
    /\ timerLive' = FALSE
    /\ liveTimers' = liveTimers - Live(timerLive)
    /\ audios' = Paused(audios, audioRef)
    /\ audioRef' = 0
    /\ revokedUrls' = IF effectUrl # 0 THEN revokedUrls \cup {effectUrl} ELSE revokedUrls
    /\ UNCHANGED <<msgSender, mainText, hasAnimated, displayedText, isComplete, pendingChunks,
                   typingDeps, index, ticks, revealDone, textChanges, parseVars, sourceVars,
                   isSpeaking, isPlaying, audioUrl, effectUrl, synthPending, synthCalls, urlCount,
                   lastNotify, toggles>>

\* useEffect of lines 55-78 runs (first render, or `enabled` changed): cleanup of the
\* previous run, then the body
RunTypingEffect ==
    /\ UNCHANGED <<sessionVars, exportVars>>
    /\ bubbleMounted
    /\ typingDeps # DepsOf(RevealEnabled)
    /\ typingDeps' = DepsOf(RevealEnabled)
    /\ pendingChunks' = <<>>
    /\ IF ~RevealEnabled
       THEN /\ displayedText' = mainText
            /\ isComplete' = TRUE
            /\ timerLive' = FALSE
            /\ liveTimers' = liveTimers - Live(timerLive)
            /\ UNCHANGED <<index, ticks>>
       ELSE /\ displayedText' = <<>>
            /\ isComplete' = FALSE
            /\ index' = 0
            /\ timerLive' = TRUE
            /\ liveTimers' = liveTimers - Live(timerLive) + 1
            /\ ticks' = 0
    /\ UNCHANGED <<msgSender, mainText, bubbleMounted, hasAnimated, revealDone, textChanges,
                   parseVars, sourceVars, speechVars>>

\* a variant of the interval callback that completes in the tick that reveals the
\* last characters
TickCompletingAtOnce ==
    /\ UNCHANGED <<sessionVars, exportVars>>
    /\ bubbleMounted /\ timerLive
    /\ ticks' = ticks + 1
    /\ LET chunkSize == IF Len(mainText) - index < ChunkSize THEN Len(mainText) - index ELSE ChunkSize
       IN  /\ displayedText' = displayedText \o Slice(mainText, index, index + chunkSize)
           /\ index' = index + chunkSize
           /\ isComplete' = (index + chunkSize >= Len(mainText))
           /\ timerLive' = (index + chunkSize < Len(mainText))
           /\ liveTimers' = IF index + chunkSize < Len(mainText) THEN liveTimers ELSE liveTimers - 1
    /\ UNCHANGED <<msgSender, mainText, bubbleMounted, hasAnimated, pendingChunks,
                   typingDeps, revealDone, textChanges, parseVars, sourceVars, speechVars>>

\* the interval callback of lines 66-75
Tick ==
    /\ UNCHANGED <<sessionVars, exportVars>>
    /\ bubbleMounted /\ timerLive
    /\ ticks' = ticks + 1
    /\ IF index < Len(mainText)
       THEN LET chunkSize == IF Len(mainText) - index < ChunkSize
                             THEN Len(mainText) - index ELSE ChunkSize
            IN  /\ \/ \* the updater is run at once (no update is queued on the hook)
                      /\ pendingChunks = <<>>
                      /\ displayedText' = displayedText \o Slice(mainText, index, index + chunkSize)
                      /\ UNCHANGED pendingChunks
                   \/ \* the updater is queued and run by the next render
                      /\ pendingChunks' = Append(pendingChunks, chunkSize)
                      /\ UNCHANGED displayedText
                /\ index' = index + chunkSize
                /\ UNCHANGED <<isComplete, timerLive, liveTimers>>
       ELSE /\ isComplete' = TRUE
            /\ timerLive' = FALSE
            /\ liveTimers' = liveTimers - 1
            /\ UNCHANGED <<displayedText, pendingChunks, index>>
    /\ UNCHANGED <<msgSender, mainText, bubbleMounted, hasAnimated, typingDeps, revealDone,
                   textChanges, parseVars, sourceVars, speechVars>>

\* a variant of the render in which the updaters replace the text shown so far
RenderQueuedDroppingPrev ==
    /\ UNCHANGED <<sessionVars, exportVars>>
    /\ bubbleMounted
    /\ pendingChunks # <<>>
    /\ displayedText' = ApplyUpdaters(<<>>, pendingChunks, mainText, index)
    /\ pendingChunks' = <<>>
    /\ UNCHANGED <<msgSender, mainText, bubbleMounted, hasAnimated, isComplete, typingDeps,
                   timerLive, index, ticks, revealDone, liveTimers, textChanges,
                   parseVars, sourceVars, speechVars>>

\* React renders the bubble and runs the queued updaters of displayedText
RenderQueued ==
    /\ UNCHANGED <<sessionVars, exportVars>>
    /\ bubbleMounted
    /\ pendingChunks # <<>>
    /\ displayedText' = ApplyUpdaters(displayedText, pendingChunks, mainText, index)
    /\ pendingChunks' = <<>>
    /\ UNCHANGED <<msgSender, mainText, bubbleMounted, hasAnimated, isComplete, typingDeps,
                   timerLive, index, ticks, revealDone, liveTimers, textChanges,
                   parseVars, sourceVars, speechVars>>

\* useEffect of lines 511-515
RunAnimatedEffect ==
    /\ UNCHANGED <<sessionVars, exportVars>>
    /\ bubbleMounted
    /\ isComplete /\ msgSender # "user" /\ ~hasAnimated
    /\ hasAnimated' = TRUE
    /\ revealDone' = TRUE
    /\ UNCHANGED <<msgSender, mainText, bubbleMounted, displayedText, isComplete, pendingChunks,
                   typingDeps, timerLive, index, ticks, liveTimers, textChanges,
                   parseVars, sourceVars, speechVars>>

MaxTextChanges == 1   \* renders of one bubble with another text

\* a variant of the re-run that sets the new interval without clearing the previous one
ReplaceTextNoCleanup ==
    /\ UNCHANGED <<sessionVars, exportVars>>
    /\ bubbleMounted /\ typingDeps # "none"
    /\ textChanges < MaxTextChanges
    /\ textChanges' = textChanges + 1
    /\ \E t \in Texts \ {mainText} :
          /\ mainText' = t
          /\ pendingChunks' = <<>>
          /\ IF ~(msgSender # "user" /\ ~hasAnimated /\ Len(t) < LongThreshold)
             THEN /\ displayedText' = t
                  /\ isComplete' = TRUE
                  /\ timerLive' = FALSE
                  /\ typingDeps' = "disabled"
                  /\ UNCHANGED <<index, ticks, liveTimers>>
             ELSE /\ displayedText' = <<>>
                  /\ isComplete' = FALSE
                  /\ index' = 0
                  /\ timerLive' = TRUE
                  /\ liveTimers' = liveTimers + 1
                  /\ ticks' = 0
                  /\ typingDeps' = "enabled"
    /\ UNCHANGED <<msgSender, bubbleMounted, hasAnimated, revealDone,
                   parseVars, sourceVars, speechVars>>

\* the hook is called with another `text` (deps [text, speed, enabled], line 78): the
\* cleanup of line 77 clears the interval of the previous run, then lines 56-75 run
ReplaceText ==
    /\ UNCHANGED <<sessionVars, exportVars>>
    /\ bubbleMounted /\ typingDeps # "none"
    /\ textChanges < MaxTextChanges
    /\ textChanges' = textChanges + 1
    /\ \E t \in Texts \ {mainText} :
          /\ mainText' = t
          /\ pendingChunks' = <<>>
          /\ IF ~(msgSender # "user" /\ ~hasAnimated /\ Len(t) < LongThreshold)
             THEN /\ displayedText' = t
                  /\ isComplete' = TRUE
                  /\ timerLive' = FALSE
                  /\ liveTimers' = liveTimers - Live(timerLive)
                  /\ typingDeps' = "disabled"
                  /\ UNCHANGED <<index, ticks>>
             ELSE /\ displayedText' = <<>>
                  /\ isComplete' = FALSE
                  /\ index' = 0
                  /\ timerLive' = TRUE
                  /\ liveTimers' = liveTimers - Live(timerLive) + 1
                  /\ ticks' = 0
                  /\ typingDeps' = "enabled"
    /\ UNCHANGED <<msgSender, bubbleMounted, hasAnimated, revealDone,
                   parseVars, sourceVars, speechVars>>

NextReveal ==
    \/ ReplaceText
    \/ MountBubble
    \/ UnmountBubble
    \/ RunTypingEffect
    \/ Tick
    \/ RenderQueued
    \/ RunAnimatedEffect

SpecReveal == InitReveal /\ [][NextReveal]_vars

\* ------------------------------------------------------------------------
\* MessageBubble: speech playback (lines 518-528, 563-606)
\* ------------------------------------------------------------------------
MaxToggles == 3     \* clicks on the listen button
MaxAudios  == 3     \* Audio elements created by startPlayback

InitSpeech ==
    /\ SessionIdle /\ ExportIdle
    /\ msgSender = "ai"
    /\ mainText = <<1, 2, 3>>
    /\ bubbleMounted = TRUE
    /\ RevealIdle /\ SpeechIdle /\ ParseIdle /\ SourcesIdle

\* startPlayback(url), lines 563-580: the elements and the ref after the call
StartedAudios(url) ==
    Append(Paused(audios, audioRef), [url |-> url, status |-> "starting", promise |-> "pending"])

\* the listen button is disabled, line 707
ListenDisabled == isSpeaking \/ mainText = <<>>

\* a variant of the click that looks neither at `disabled` nor at isSpeaking
ToggleSpeechUnguarded ==
    /\ UNCHANGED <<sessionVars, exportVars>>
    /\ bubbleMounted
    /\ toggles < MaxToggles
    /\ toggles' = toggles + 1
    /\ IF isPlaying
       THEN /\ audios' = Paused(audios, audioRef)
            /\ isPlaying' = FALSE
            /\ UNCHANGED <<isSpeaking, audioRef, synthPending, synthCalls>>
       ELSE IF audioUrl # 0
       THEN /\ Len(audios) < MaxAudios
            /\ audios' = StartedAudios(audioUrl)
            /\ audioRef' = Len(audios) + 1
            /\ UNCHANGED <<isSpeaking, isPlaying, synthPending, synthCalls>>
       ELSE /\ isSpeaking' = TRUE
            /\ synthPending' = TRUE
            /\ synthCalls' = synthCalls + 1
            /\ UNCHANGED <<isPlaying, audioRef, audios>>
    /\ UNCHANGED <<audioUrl, effectUrl, urlCount, revokedUrls, lastNotify,
                   bubbleMounted, revealVars, parseVars, sourceVars>>

\* a variant of the click that synthesizes again although a URL is cached
ToggleSpeechNoCache ==
    /\ UNCHANGED <<sessionVars, exportVars>>
    /\ bubbleMounted
    /\ toggles < MaxToggles
    /\ toggles' = toggles + 1
    /\ IF ListenDisabled \/ isSpeaking
       THEN UNCHANGED <<isSpeaking, isPlaying, audioRef, audios, synthPending, synthCalls>>
       ELSE IF isPlaying
       THEN /\ audios' = Paused(audios, audioRef)
            /\ isPlaying' = FALSE
            /\ UNCHANGED <<isSpeaking, audioRef, synthPending, synthCalls>>
       ELSE /\ isSpeaking' = TRUE
            /\ synthPending' = TRUE
            /\ synthCalls' = synthCalls + 1
            /\ UNCHANGED <<isPlaying, audioRef, audios>>
    /\ UNCHANGED <<audioUrl, effectUrl, urlCount, revokedUrls, lastNotify,
                   bubbleMounted, revealVars, parseVars, sourceVars>>

\* a click on the listen button (lines 705-708): nothing runs while it is disabled,
\* otherwise handleToggleSpeech, lines 582-598 (up to the await)
ToggleSpeech ==
    /\ UNCHANGED <<sessionVars, exportVars>>
    /\ bubbleMounted
    /\ toggles < MaxToggles
    /\ toggles' = toggles + 1
    /\ IF ListenDisabled \/ isSpeaking
       THEN UNCHANGED <<isSpeaking, isPlaying, audioRef, audios, synthPending, synthCalls>>
       ELSE IF isPlaying
       THEN /\ audios' = Paused(audios, audioRef)
            /\ isPlaying' = FALSE
            /\ UNCHANGED <<isSpeaking, audioRef, synthPending, synthCalls>>
       ELSE IF audioUrl # 0
       THEN /\ Len(audios) < MaxAudios
            /\ audios' = StartedAudios(audioUrl)
            /\ audioRef' = Len(audios) + 1
            /\ UNCHANGED <<isSpeaking, isPlaying, synthPending, synthCalls>>
       ELSE /\ isSpeaking' = TRUE
            /\ synthPending' = TRUE
            /\ synthCalls' = synthCalls + 1
            /\ UNCHANGED <<isPlaying, audioRef, audios>>
    /\ UNCHANGED <<audioUrl, effectUrl, urlCount, revokedUrls, lastNotify,
                   bubbleMounted, revealVars, parseVars, sourceVars>>

\* generateSpeech resolved with a new object URL: lines 597-599 and 603
\* (setState of an unmounted instance changes nothing)
SynthResolve ==
    /\ UNCHANGED <<sessionVars, exportVars>>
    /\ synthPending
    /\ Len(audios) < MaxAudios
    /\ synthPending' = FALSE
    /\ urlCount' = urlCount + 1
    /\ audioUrl' = IF bubbleMounted THEN urlCount + 1 ELSE audioUrl
    /\ audios' = StartedAudios(urlCount + 1)
    /\ audioRef' = Len(audios) + 1
    /\ isSpeaking' = IF bubbleMounted THEN FALSE ELSE isSpeaking
    /\ UNCHANGED <<isPlaying, effectUrl, revokedUrls, lastNotify, toggles, synthCalls,
                   bubbleMounted, revealVars, parseVars, sourceVars>>

\* generateSpeech rejected: lines 600-603
SynthReject ==
    /\ UNCHANGED <<sessionVars, exportVars>>
    /\ synthPending
    /\ synthPending' = FALSE
    /\ lastNotify' = "Failed to generate audio"
    /\ isSpeaking' = IF bubbleMounted THEN FALSE ELSE isSpeaking
    /\ UNCHANGED <<isPlaying, audioUrl, audioRef, effectUrl, audios, urlCount, revokedUrls,
                   synthCalls,
                   toggles, bubbleMounted, revealVars, parseVars, sourceVars>>

\* audioUrl changed: the cleanup the previous run of the effect of lines 518-528
\* returned runs (with the audioUrl it captured), then the effect runs again
RunAudioEffect ==
    /\ UNCHANGED <<sessionVars, exportVars>>
    /\ bubbleMounted
    /\ effectUrl # audioUrl
    /\ audios' = Paused(audios, audioRef)
    /\ audioRef' = 0
    /\ revokedUrls' = IF effectUrl # 0 THEN revokedUrls \cup {effectUrl} ELSE revokedUrls
    /\ effectUrl' = audioUrl
    /\ UNCHANGED <<isSpeaking, isPlaying, audioUrl, synthPending, synthCalls, urlCount, lastNotify, toggles,
                   bubbleMounted, revealVars, parseVars, sourceVars>>

\* playback of element a begins: its play() promise resolves, line 575
AudioStarts(a) ==
    /\ UNCHANGED <<sessionVars, exportVars>>
    /\ audios[a].status = "starting"
    /\ audios' = [audios EXCEPT ![a] = [url |-> @.url, status |-> "playing", promise |-> "settled"]]
    /\ isPlaying' = IF bubbleMounted THEN TRUE ELSE isPlaying
    /\ UNCHANGED <<isSpeaking, audioUrl, audioRef, effectUrl, synthPending, synthCalls, urlCount, revokedUrls,
                   lastNotify, toggles, bubbleMounted, revealVars, parseVars, sourceVars>>

\* element a fails to load: onerror, lines 570-573; its play() promise rejects
AudioFails(a) ==
    /\ UNCHANGED <<sessionVars, exportVars>>
    /\ audios[a].status = "starting"
    /\ audios' = [audios EXCEPT ![a] = [url |-> @.url, status |-> "error", promise |-> "rejected"]]
    /\ isPlaying' = IF bubbleMounted THEN FALSE ELSE isPlaying
    /\ lastNotify' = "Audio playback failed"
    /\ UNCHANGED <<isSpeaking, audioUrl, audioRef, effectUrl, synthPending, synthCalls, urlCount, revokedUrls,
                   toggles, bubbleMounted, revealVars, parseVars, sourceVars>>

\* the catch callback of a rejected play() promise, lines 576-579
PlayRejected(a) ==
    /\ UNCHANGED <<sessionVars, exportVars>>
    /\ audios[a].promise = "rejected"
    /\ audios' = [audios EXCEPT ![a] = [url |-> @.url, status |-> @.status, promise |-> "settled"]]
    /\ isPlaying' = IF bubbleMounted THEN FALSE ELSE isPlaying
    /\ lastNotify' = "Audio playback failed"
    /\ UNCHANGED <<isSpeaking, audioUrl, audioRef, effectUrl, synthPending, synthCalls, urlCount, revokedUrls,
                   toggles, bubbleMounted, revealVars, parseVars, sourceVars>>

\* element a plays to its end: onended, line 569
AudioEnded(a) ==
    /\ UNCHANGED <<sessionVars, exportVars>>
    /\ audios[a].status = "playing"
    /\ audios' = [audios EXCEPT ![a] = [url |-> @.url, status |-> "ended", promise |-> @.promise]]
    /\ isPlaying' = IF bubbleMounted THEN FALSE ELSE isPlaying
    /\ UNCHANGED <<isSpeaking, audioUrl, audioRef, effectUrl, synthPending, synthCalls, urlCount, revokedUrls,
                   lastNotify, toggles, bubbleMounted, revealVars, parseVars, sourceVars>>

NextSpeech ==
    \/ ToggleSpeech
    \/ SynthResolve
    \/ SynthReject
    \/ RunAudioEffect
    \/ \E a \in 1..Len(audios) : AudioStarts(a)
    \/ \E a \in 1..Len(audios) : AudioFails(a)
    \/ \E a \in 1..Len(audios) : PlayRejected(a)
    \/ \E a \in 1..Len(audios) : AudioEnded(a)
    \/ UnmountBubble

SpecSpeech == InitSpeech /\ [][NextSpeech]_vars

\* ------------------------------------------------------------------------
\* Home: the session log and its requests (src/app/page.tsx lines 499-714)
\* ------------------------------------------------------------------------
MaxSubmits  == 2     \* submit attempts
MaxNewChats == 1     \* new chat / clear chat clicks

\* what the composer holds: empty, blanks only, a question
UserTexts == {"", " ", "q"}
Blank(t) == t \in {"", " "}         \* !text.trim()

EntryPoints == {"composer", "prompt", "tool", "quick"}

MaxViewOps  == 1     \* pin, search, focus and export clicks

\* generateId (src/lib/utils.ts line 14) gives every message an id of its own
UserMessage(t, att, r) ==
    [id |-> <<r, "user">>, sender |-> "user",
     text |-> IF t = "" /\ att THEN "[Attached File]" ELSE t, req |-> r]
AiMessage(t, r) == [id |-> <<r, "ai">>, sender |-> "ai", text |-> t, req |-> r]

\* the logs loadMessagesFromStorage may return
StoredLogs == {<<>>, <<UserMessage("q", FALSE, 0), AiMessage("answer", 0)>>}

\* what localStorage may hold when the page opens
StoredValues == {NoKey} \cup {[present |-> TRUE, log |-> l] : l \in StoredLogs}

\* loadMessagesFromStorage, lines 412-427: the parsed list, [] without the key
StoredList == IF stored.present THEN stored.log ELSE <<>>

InitSession ==
    /\ PageFresh /\ stored \in StoredValues
    /\ ExportIdle /\ ParseIdle /\ SourcesIdle /\ NoBubble

\* a variant of the save effect without the `mounted &&` and `length > 0` tests
SaveEffectAlways(mounted, log) ==
    \/ stored' = [present |-> TRUE, log |-> log] /\ writeFailed' = FALSE
    \/ UNCHANGED stored /\ writeFailed' = TRUE

\* the save effect of lines 558-562 for the render with this log, saveMessagesToStorage
\* (lines 429-436) included: setItem writes the list or throws and is caught
SaveEffect(mounted, log) ==
    IF mounted /\ log # <<>>
    THEN \/ stored' = [present |-> TRUE, log |-> log] /\ writeFailed' = FALSE
         \/ UNCHANGED stored /\ writeFailed' = TRUE
    ELSE UNCHANGED <<stored, writeFailed>>

\* showToast (lines 595-598) and the Toast effect that the render runs (Toast.tsx lines
\* 21-30): `changed` says that Home renders again, which it does not when the message
\* and type are the ones already shown and nothing else was set
ShowToast(message, changed) ==
    /\ toastMessage' = message
    /\ toastSeq' = toastSeq + 1
    /\ IF changed \/ message # toastMessage
       THEN toastVisible' = TRUE /\ toastTimer' = TRUE
       ELSE UNCHANGED <<toastVisible, toastTimer>>
    /\ UNCHANGED closeTimers

\* Home renders with a toast on screen: onClose is a new function, so the Toast effect
\* is cleaned up and run again (Toast.tsx lines 21-30)
ToastRerun ==
    IF toastMessage # "null"
    THEN toastVisible' = TRUE /\ toastTimer' = TRUE /\ UNCHANGED <<toastSeq, closeTimers>>
    ELSE UNCHANGED toastVars

\* the effects of the first render: the load effect reads the storage and sets its
\* timers (lines 519-555), the save effect runs with mounted = false and no message
\* (lines 558-562)
RunMountEffects ==
    /\ ~storedMessages.read
    /\ storedMessages' = [read |-> TRUE, log |-> StoredList]
    /\ SaveEffect(pageMounted, messages)
    /\ UNCHANGED <<pageMounted, messages, isProcessing, inFlight, nextReq, toastMessage,
                   submitTries, lastSubmit, newChats, viewVars, toastVars,
                   parseVars, sourceVars, bubbleMounted, revealVars, speechVars, exportVars>>

\* the timer of lines 546-549 fires
LoadStored ==
    /\ storedMessages.read /\ ~pageMounted
    /\ pageMounted' = TRUE
    /\ messages' = storedMessages.log
    /\ SaveEffect(TRUE, storedMessages.log)
    /\ UNCHANGED <<storedMessages, isProcessing, inFlight, nextReq, toastMessage, submitTries, lastSubmit,
                   newChats, viewVars, toastVars,
                   parseVars, sourceVars, bubbleMounted, revealVars, speechVars, exportVars>>

\* the entry point is on screen: the prompts only on the empty state (line 1010), the
\* quick actions only under an assistant message (part_000 line 895)
Offered(entry) ==
    CASE entry = "prompt" -> messages = <<>> /\ ~isProcessing
      [] entry = "quick"  -> \E i \in 1..Len(messages) : messages[i].sender = "ai"
      [] OTHER            -> TRUE

\* the composer hands on what it holds; the other entry points a prompt, no attachment
Handed(entry, t, att) == entry = "composer" \/ (t = "q" /\ ~att)

\* InputComposer.handleSubmit, line 109, in front of onSubmit
ComposerRefuses(entry, t, att) ==
    entry = "composer" /\ ((Blank(t) /\ ~att) \/ isProcessing)

\* a variant of the submit that does not look at isProcessing
SubmitWhileBusy(entry, t, att) ==
    /\ pageMounted /\ Offered(entry) /\ Handed(entry, t, att)
    /\ submitTries < MaxSubmits
    /\ submitTries' = submitTries + 1
    /\ IF Blank(t) /\ ~att
       THEN /\ lastSubmit' = [entry |-> entry, busy |-> isProcessing, accepted |-> FALSE]
            /\ UNCHANGED <<messages, isProcessing, inFlight, nextReq, storeVars, toastVars>>
       ELSE /\ lastSubmit' = [entry |-> entry, busy |-> isProcessing, accepted |-> TRUE]
            /\ messages' = Append(messages, UserMessage(t, att, nextReq + 1))
            /\ isProcessing' = TRUE
            /\ inFlight' = inFlight \cup {nextReq + 1}
            /\ nextReq' = nextReq + 1
            /\ SaveEffect(TRUE, Append(messages, UserMessage(t, att, nextReq + 1)))
            /\ UNCHANGED storedMessages
            /\ ToastRerun
    /\ UNCHANGED <<pageMounted, toastMessage, newChats, viewVars,
                   parseVars, sourceVars, bubbleMounted, revealVars, speechVars, exportVars>>

\* a submit from an entry point: handleSubmit, lines 621-649 (up to the await), reached
\* through InputComposer.handleSubmit (lines 107-120), handlePromptSelect,
\* handleToolSelect or handleQuickAction (lines 685-714)
Submit(entry, t, att) ==
    /\ pageMounted /\ Offered(entry) /\ Handed(entry, t, att)
    /\ submitTries < MaxSubmits
    /\ submitTries' = submitTries + 1
    /\ IF ComposerRefuses(entry, t, att) \/ (Blank(t) /\ ~att) \/ isProcessing
       THEN /\ lastSubmit' = [entry |-> entry, busy |-> isProcessing, accepted |-> FALSE]
            /\ UNCHANGED <<messages, isProcessing, inFlight, nextReq, storeVars, toastVars>>
       ELSE /\ lastSubmit' = [entry |-> entry, busy |-> isProcessing, accepted |-> TRUE]
            /\ messages' = Append(messages, UserMessage(t, att, nextReq + 1))
            /\ isProcessing' = TRUE
            /\ inFlight' = inFlight \cup {nextReq + 1}
            /\ nextReq' = nextReq + 1
            /\ SaveEffect(TRUE, Append(messages, UserMessage(t, att, nextReq + 1)))
            /\ UNCHANGED storedMessages
            /\ ToastRerun
    /\ UNCHANGED <<pageMounted, toastMessage, newChats, viewVars,
                   parseVars, sourceVars, bubbleMounted, revealVars, speechVars, exportVars>>

\* a variant of the arrival that appends nothing when the log was emptied meanwhile
RespondUnlessCleared(r) ==
    /\ r \in inFlight
    /\ inFlight' = inFlight \ {r}
    /\ messages' = IF messages = <<>> THEN <<>> ELSE Append(messages, AiMessage("answer", r))
    /\ isProcessing' = FALSE
    /\ UNCHANGED <<storeVars, toastVars>>
    /\ UNCHANGED <<pageMounted, nextReq, toastMessage, submitTries, lastSubmit, newChats, viewVars,
                   parseVars, sourceVars, bubbleMounted, revealVars, speechVars, exportVars>>

\* generateText of request r resolved: lines 651-664 and 681
Respond(r) ==
    /\ r \in inFlight
    /\ inFlight' = inFlight \ {r}
    /\ messages' = Append(messages, AiMessage("answer", r))
    /\ isProcessing' = FALSE
    /\ SaveEffect(TRUE, Append(messages, AiMessage("answer", r)))
    /\ UNCHANGED storedMessages
    /\ ToastRerun
    /\ UNCHANGED <<pageMounted, nextReq, toastMessage, submitTries, lastSubmit, newChats, viewVars,
                   parseVars, sourceVars, bubbleMounted, revealVars, speechVars, exportVars>>

\* generateText of request r rejected: lines 665-681
RequestFails(r) ==
    /\ r \in inFlight
    /\ inFlight' = inFlight \ {r}
    /\ messages' = Append(messages, AiMessage("**Error:**", r))
    /\ ShowToast("Failed to generate response", TRUE)
    /\ isProcessing' = FALSE
    /\ SaveEffect(TRUE, Append(messages, AiMessage("**Error:**", r)))
    /\ UNCHANGED storedMessages
    /\ UNCHANGED <<pageMounted, nextReq, submitTries, lastSubmit, newChats, viewVars,
                   parseVars, sourceVars, bubbleMounted, revealVars, speechVars, exportVars>>

\* handleNewChat / handleClearChat, lines 600-612
NewChat ==
    /\ pageMounted
    /\ newChats < MaxNewChats
    /\ newChats' = newChats + 1
    /\ messages' = <<>>
    /\ pinnedMessageIds' = <<>>
    /\ searchQuery' = ""
    /\ stored' = NoKey /\ writeFailed' = FALSE /\ UNCHANGED storedMessages
    /\ ShowToast("Started a new SEO chat session", TRUE)
    /\ UNCHANGED <<pageMounted, isProcessing, inFlight, nextReq, submitTries, lastSubmit,
                   focusMode, viewOps,
                   parseVars, sourceVars, bubbleMounted, revealVars, speechVars, exportVars>>

\* handleTogglePin, lines 693-700, from the pin button of the bubble of message i
TogglePin(i) ==
    /\ pageMounted /\ viewOps < MaxViewOps
    /\ i \in 1..Len(messages)
    /\ viewOps' = viewOps + 1
    /\ pinnedMessageIds' =
          IF \E k \in 1..Len(pinnedMessageIds) : pinnedMessageIds[k] = messages[i].id
          THEN SelectSeq(pinnedMessageIds, LAMBDA item : item # messages[i].id)
          ELSE <<messages[i].id>> \o pinnedMessageIds
    /\ ToastRerun
    /\ UNCHANGED <<pageMounted, messages, isProcessing, inFlight, nextReq, toastMessage,
                   submitTries, lastSubmit, newChats, searchQuery, focusMode, storeVars,
                   parseVars, sourceVars, bubbleMounted, revealVars, speechVars, exportVars>>

\* a variant of the search that filters the log itself instead of the visible messages
SearchFilteringLog(q) ==
    /\ pageMounted /\ viewOps < MaxViewOps
    /\ q # searchQuery
    /\ viewOps' = viewOps + 1
    /\ searchQuery' = q
    /\ messages' = IF q = "" THEN messages ELSE SelectSeq(messages, LAMBDA m : m.text = q)
    /\ ToastRerun
    /\ UNCHANGED <<pageMounted, isProcessing, inFlight, nextReq, toastMessage,
                   submitTries, lastSubmit, newChats, pinnedMessageIds, focusMode, storeVars,
                   parseVars, sourceVars, bubbleMounted, revealVars, speechVars, exportVars>>

\* the search box, lines 904 and 917: setSearchQuery
Search(q) ==
    /\ pageMounted /\ viewOps < MaxViewOps
    /\ q # searchQuery
    /\ viewOps' = viewOps + 1
    /\ searchQuery' = q
    /\ ToastRerun
    /\ UNCHANGED <<pageMounted, messages, isProcessing, inFlight, nextReq, toastMessage,
                   submitTries, lastSubmit, newChats, pinnedMessageIds, focusMode, storeVars,
                   parseVars, sourceVars, bubbleMounted, revealVars, speechVars, exportVars>>

\* the focus button, line 947
ToggleFocus ==
    /\ pageMounted /\ viewOps < MaxViewOps
    /\ viewOps' = viewOps + 1
    /\ focusMode' = ~focusMode
    /\ ToastRerun
    /\ UNCHANGED <<pageMounted, messages, isProcessing, inFlight, nextReq, toastMessage,
                   submitTries, lastSubmit, newChats, pinnedMessageIds, searchQuery, storeVars,
                   parseVars, sourceVars, bubbleMounted, revealVars, speechVars, exportVars>>

\* handleExportChat, lines 716-735
ExportChat ==
    /\ pageMounted /\ viewOps < MaxViewOps
    /\ viewOps' = viewOps + 1
    /\ IF messages = <<>>
       THEN ShowToast("No messages to export yet", FALSE)
       ELSE ShowToast("Chat exported successfully", FALSE)
    /\ UNCHANGED <<pageMounted, messages, isProcessing, inFlight, nextReq,
                   submitTries, lastSubmit, newChats, pinnedMessageIds, searchQuery, focusMode,
                   storeVars,
                   parseVars, sourceVars, bubbleMounted, revealVars, speechVars, exportVars>>

NextSession ==
    \/ RunMountEffects
    \/ LoadStored
    \/ \E entry \in EntryPoints, t \in UserTexts, att \in BOOLEAN : Submit(entry, t, att)
    \/ \E r \in inFlight : Respond(r)
    \/ \E r \in inFlight : RequestFails(r)
    \/ NewChat
    \/ \E i \in {1} : TogglePin(i)          \* the pin button of the first bubble
    \/ \E q \in {"", "q"} : Search(q)
    \/ ToggleFocus
    \/ ExportChat

SpecSession == InitSession /\ [][NextSession]_vars

\* ------------------------------------------------------------------------
\* Toast (src/components/ui/Toast.tsx) under Home's showToast
\* ------------------------------------------------------------------------
MaxToasts == 3      \* showToast calls

\* the messages Home passes to showToast
ToastMessages == {"Started a new SEO chat session", "No messages to export yet"}

InitToast ==
    /\ SessionIdle /\ ExportIdle /\ ParseIdle /\ SourcesIdle /\ NoBubble

\* what the Toast and its callbacks leave alone
ToastOnly ==
    UNCHANGED <<pageMounted, messages, isProcessing, inFlight, nextReq, submitTries, lastSubmit,
                newChats, viewVars, storeVars,
                parseVars, sourceVars, bubbleMounted, revealVars, speechVars, exportVars>>

\* a handler of Home calls showToast (page.tsx lines 595-598)
ShowAToast(message, changed) ==
    /\ toastSeq < MaxToasts
    /\ ShowToast(message, changed)
    /\ ToastOnly

\* Home renders for another reason while a toast is set (page.tsx lines 829-833)
HomeRenders ==
    /\ toastMessage # "null"
    /\ ToastRerun
    /\ UNCHANGED toastMessage
    /\ ToastOnly

\* the 4000 ms timeout of Toast.tsx lines 24-27 fires
ToastTimerFires ==
    /\ toastTimer
    /\ toastTimer' = FALSE
    /\ toastVisible' = FALSE
    /\ closeTimers' = closeTimers \cup {[toast |-> toastSeq, by |-> "auto"]}
    /\ UNCHANGED <<toastMessage, toastSeq>>
    /\ ToastOnly

\* the dismiss button, Toast.tsx lines 66-70 (rendered only with a message, line 32)
DismissToast ==
    /\ toastMessage # "null"
    /\ toastVisible' = FALSE
    /\ closeTimers' = closeTimers \cup {[toast |-> toastSeq, by |-> "button"]}
    /\ UNCHANGED <<toastMessage, toastSeq, toastTimer>>
    /\ ToastOnly

\* a setTimeout(onClose, 300) callback runs: setToastMessage(null) (page.tsx line 831);
\* Home renders, the cleanup of Toast.tsx line 28 clears the 4000 ms timeout and the
\* effect does nothing for a null message
CloseFires(c) ==
    /\ c \in closeTimers
    /\ closeTimers' = closeTimers \ {c}
    /\ toastMessage' = "null"
    /\ toastTimer' = FALSE
    /\ UNCHANGED <<toastSeq, toastVisible>>
    /\ ToastOnly

NextToast ==
    \/ \E message \in ToastMessages, changed \in BOOLEAN : ShowAToast(message, changed)
    \/ HomeRenders
    \/ ToastTimerFires
    \/ DismissToast
    \/ \E c \in closeTimers : CloseFires(c)

SpecToast == InitToast /\ [][NextToast]_vars

\* ------------------------------------------------------------------------
\* exportToPDF: markdownToHTML (src/unnamed/part_000 lines 237-345)
\* ------------------------------------------------------------------------
MaxCols == 2     \* columns of a table
MaxRows == 2     \* data rows of a table

PIPE == "|"

\* String.prototype.split on a separator that is a sequence of tokens
RECURSIVE SplitOn(_, _)
SplitOn(s, sep) ==
    IF IndexOf(s, sep) = 0 \/ IndexOf(s, sep) > Len(s) THEN <<s>>
    ELSE <<SubSeq(s, 1, IndexOf(s, sep) - 1)>> \o SplitOn(From(s, IndexOf(s, sep) + Len(sep)), sep)

SelectNonBlank(ls) == SelectSeq(ls, LAMBDA l : Trim(l) # <<>>)

RECURSIVE Flatten(_)
Flatten(ss) == IF ss = <<>> THEN <<>> ELSE Head(ss) \o Flatten(Tail(ss))

\* position of the first line feed at or after i (0 when there is none)
NextNL(s, i) ==
    IF \E j \in i..Len(s) : s[j] = NL THEN Min({j \in i..Len(s) : s[j] = NL}) ELSE 0

\* \|[^\n]+\|\n at q: position after the match, 0 if none
RowLineEnd(s, q) ==
    IF At(s, q) = PIPE /\ NextNL(s, q) >= q + 3 /\ At(s, NextNL(s, q) - 1) = PIPE
    THEN NextNL(s, q) + 1 ELSE 0

\* (?:\|[^\n]+\|\n)+ at q, greedy: position after the match, 0 if none
RECURSIVE RowRunEnd(_, _)
RowRunEnd(s, q) ==
    IF RowLineEnd(s, q) = 0 THEN 0
    ELSE IF RowRunEnd(s, RowLineEnd(s, q)) = 0 THEN RowLineEnd(s, q)
    ELSE RowRunEnd(s, RowLineEnd(s, q))

\* where the group of (?:^|\n)(...) starts for a match that starts at p (0 when the prefix fails)
TableGroupStart(s, p) ==
    IF p = 1 /\ RowRunEnd(s, 1) # 0 THEN 1
    ELSE IF At(s, p) = NL /\ RowRunEnd(s, p + 1) # 0 THEN p + 1
    ELSE 0

\* /^\|[\s\-:|]+\|$/ on one line
IsSeparator(line) ==
    /\ Len(line) >= 3
    /\ line[1] = PIPE /\ line[Len(line)] = PIPE
    /\ \A j \in 2..(Len(line) - 1) : line[j] \in {SP, NL, DASH3, COLON, PIPE}

\* split('|') without the first and the last piece, each piece trimmed: lines 295-297, 301-303
CellsOf(line) ==
    [j \in 1..(Len(SplitOn(line, <<PIPE>>)) - 2) |-> Trim(SplitOn(line, <<PIPE>>)[j + 1])]

HeaderCellHTML(cell) == <<"<th>">> \o cell \o <<"</th>">>
BodyCellHTML(cell)   == <<"<td>">> \o cell \o <<"</td>">>

\* lines 312-317
BodyRowHTML(line) ==
    <<"<tr>">> \o Flatten([j \in 1..Len(CellsOf(line)) |-> BodyCellHTML(CellsOf(line)[j])])
               \o <<"</tr>">>

\* the template of lines 319-327 (its indentation is one blank here)
TableHTML(lines) ==
    <<NL, "<table>", NL, SP, "<thead>", NL, SP, "<tr>">>
    \o Flatten([j \in 1..Len(CellsOf(lines[1])) |-> HeaderCellHTML(CellsOf(lines[1])[j])])
    \o <<"</tr>", NL, SP, "</thead>", NL, SP, "<tbody>", NL, SP>>
    \o Flatten([j \in 1..(Len(lines) - 2) |-> BodyRowHTML(lines[j + 2])])
    \o <<NL, SP, "</tbody>", NL, "</table>">>

\* the callback of line 286 on the lines of the group: lines 287-327
TableOrMatch(match, lines) ==
    IF Len(lines) < 2 THEN match
    ELSE IF ~IsSeparator(lines[2]) THEN match
    ELSE TableHTML(lines)

TableLines(group) == SelectNonBlank(SplitOn(Trim(group), <<NL>>))

\* html.replace(/(?:^|\n)((?:\|[^\n]+\|\n)+)/g, ...) from position p on: line 286
RECURSIVE ReplaceTables(_, _)
ReplaceTables(s, p) ==
    IF p > Len(s) THEN <<>>
    ELSE IF TableGroupStart(s, p) = 0 THEN <<s[p]>> \o ReplaceTables(s, p + 1)
    ELSE TableOrMatch(SubSeq(s, p, RowRunEnd(s, TableGroupStart(s, p)) - 1),
                      TableLines(SubSeq(s, TableGroupStart(s, p),
                                        RowRunEnd(s, TableGroupStart(s, p)) - 1)))
         \o ReplaceTables(s, RowRunEnd(s, TableGroupStart(s, p)))

\* the openings a block is tested for at lines 333-339
BlockTags == {"<h1>", "<h2>", "<h3>", "<ul>", "<ol>", "<pre>", "<table>", "<blockquote>", "<hr>"}

BreakLines(block) == [j \in 1..Len(block) |-> IF block[j] = NL THEN "<br>" ELSE block[j]]

\* lines 331-343, one block
Paragraph(block) ==
    IF Trim(block) # <<>> /\ Head(block) \notin BlockTags
    THEN <<"<p>">> \o BreakLines(block) \o <<"</p>">>
    ELSE block

RECURSIVE JoinLines(_)
JoinLines(blocks) ==
    IF Len(blocks) = 1 THEN Head(blocks)
    ELSE Head(blocks) \o <<NL>> \o JoinLines(Tail(blocks))

WrapParagraphs(html) ==
    JoinLines([j \in 1..Len(SplitOn(html, <<NL, NL>>)) |-> Paragraph(SplitOn(html, <<NL, NL>>)[j])])

\* one backtick character
BT == "backtick"

\* html.replace(/&/g, '&amp;'): line 241
EscapeAmp(html) == [j \in 1..Len(html) |-> IF html[j] = "&" THEN "&amp;" ELSE html[j]]

\* /`([^`]+)`/ at p: the position of the closing backtick, 0 if there is no match
InlineCodeEnd(s, p) ==
    IF At(s, p) = BT /\ At(s, p + 1) # BT /\ IndexOf(From(s, p + 1), <<BT>>) # 0
    THEN p + IndexOf(From(s, p + 1), <<BT>>) ELSE 0

\* html.replace(/`([^`]+)`/g, '<code>$1</code>') from position p on: line 257
RECURSIVE ReplaceInlineCode(_, _)
ReplaceInlineCode(s, p) ==
    IF p > Len(s) THEN <<>>
    ELSE IF InlineCodeEnd(s, p) = 0 THEN <<s[p]>> \o ReplaceInlineCode(s, p + 1)
    ELSE <<"<code>">> \o SubSeq(s, p + 1, InlineCodeEnd(s, p) - 1) \o <<"</code>">>
         \o ReplaceInlineCode(s, InlineCodeEnd(s, p) + 1)

\* position reached by a greedy [\w]* that starts at i
RECURSIVE SkipWord(_, _)
SkipWord(s, i) == IF i <= Len(s) /\ IsWordTok(s[i]) THEN SkipWord(s, i + 1) ELSE i

\* /```[\w]*\n([\s\S]*?)```/ at p: where the group starts, 0 if there is no match
CodeBodyStart(s, p) ==
    IF /\ LitAt(s, p, <<BT, BT, BT>>)
       /\ At(s, SkipWord(s, p + 3)) = NL
       /\ IndexOf(From(s, SkipWord(s, p + 3) + 1), <<BT, BT, BT>>) # 0
    THEN SkipWord(s, p + 3) + 1 ELSE 0

\* the position of the closing fence of the match whose group starts at b
CodeFenceAt(s, b) == b + IndexOf(From(s, b), <<BT, BT, BT>>) - 1

\* html.replace(/```[\w]*\n([\s\S]*?)```/g, '<pre><code>$1</code></pre>') from position p
\* on: line 260
RECURSIVE ReplaceCodeBlocks(_, _)
ReplaceCodeBlocks(s, p) ==
    IF p > Len(s) THEN <<>>
    ELSE IF CodeBodyStart(s, p) = 0 THEN <<s[p]>> \o ReplaceCodeBlocks(s, p + 1)
    ELSE <<"<pre>", "<code>">>
         \o SubSeq(s, CodeBodyStart(s, p), CodeFenceAt(s, CodeBodyStart(s, p)) - 1)
         \o <<"</code>", "</pre>">>
         \o ReplaceCodeBlocks(s, CodeFenceAt(s, CodeBodyStart(s, p)) + 3)

\* markdownToHTML on a text of pipes, blanks, dashes, line feeds, backticks, plain words
\* and the characters <, > and &: the replacements of lines 244-254 and 263-282 match
\* nothing in such a text
markdownToHTML(markdown) ==
    WrapParagraphs(ReplaceTables(ReplaceCodeBlocks(ReplaceInlineCode(EscapeAmp(markdown), 1), 1), 1))

\* --- the markdown exported ---
HeaderWords == {"A", "B"}
DataWords   == {"1", "2"}

RowsOfWidth(words, n) == [1..n -> words]

Padded(cell, pad) == [j \in 1..pad |-> SP] \o <<cell>> \o [j \in 1..pad |-> SP]

RowText(cells, pad) ==
    <<PIPE>> \o Flatten([j \in 1..Len(cells) |-> Padded(cells[j], pad) \o <<PIPE>>])

Tables ==
    UNION {[header : RowsOfWidth(HeaderWords, n),
            sep    : BOOLEAN,
            rows   : UNION {[1..k -> RowsOfWidth(DataWords, n)] : k \in 0..MaxRows},
            pad    : 0..1,
            nl     : BOOLEAN] : n \in 1..MaxCols}

\* the text of a table: its rows on lines of their own, the last one closed by a line
\* feed or not
TableText(t) ==
    JoinLines(<<RowText(t.header, t.pad)>>
              \o (IF t.sep THEN <<RowText([j \in 1..Len(t.header) |-> DASH3], t.pad)>> ELSE <<>>)
              \o [k \in 1..Len(t.rows) |-> RowText(t.rows[k], t.pad)])
    \o (IF t.nl THEN <<NL>> ELSE <<>>)

InitExport ==
    /\ SessionIdle /\ ParseIdle /\ SourcesIdle /\ NoBubble
    /\ mdTable \in Tables
    /\ content = TableText(mdTable)
    /\ printed = NULL

\* exportToPDF, line 353
ExportPDF ==
    /\ printed = NULL
    /\ printed' = markdownToHTML(content)
    /\ UNCHANGED <<content, mdTable, sessionVars, parseVars, sourceVars, bubbleMounted, revealVars, speechVars>>

NextExport == ExportPDF

SpecExport == InitExport /\ [][NextExport]_vars

\* --- exports of text with raw markup characters and with fenced code blocks ---
MaxDocLen == 3     \* tokens of a text of raw characters

\* texts of <, > and & between plain words
RawTexts == UNION {[1..n -> {"<", ">", "&", "x"}] : n \in 1..MaxDocLen}

\* well-formed fenced code blocks: what precedes the opening fence, its language tag,
\* the lines of the body, what follows the closing fence
FencedBlocks ==
    [before : {<<>>, <<"x", NL, NL>>},
     lang   : {<<>>, <<"x">>},
     body   : {<<"x">>, <<"x", NL, "w4">>, <<"x", NL, NL, "w4">>},
     after  : {<<>>, <<NL, NL, "x">>}]

FencedText(d) ==
    d.before \o <<BT, BT, BT>> \o d.lang \o <<NL>> \o d.body \o <<NL, BT, BT, BT>> \o d.after

InitPrint ==
    /\ SessionIdle /\ ParseIdle /\ SourcesIdle /\ NoBubble
    /\ mdTable = NoTable
    /\ content \in RawTexts \cup {FencedText(d) : d \in FencedBlocks}
    /\ printed = NULL

SpecPrint == InitPrint /\ [][NextExport]_vars

\* ------------------------------------------------------------------------
\* Section extractor: properties
\* ------------------------------------------------------------------------
HasTok(t, T) == \E i \in 1..Len(t) : t[i] \in T

\* the first `**Reasoning:**` and the first `**Answer:**` behind it (0 if none)
FirstBoldReasoning(t) == IndexOf(t, BoldReasoning)
FirstBoldAnswer(t) ==
    LET c == {j \in (FirstBoldReasoning(t) + 4)..Len(t) : LitAt(t, j, BoldAnswer)}
    IN  IF FirstBoldReasoning(t) = 0 \/ c = {} THEN 0 ELSE Min(c)
ReasoningSection(t) == Trim(SubSeq(t, FirstBoldReasoning(t) + 4, FirstBoldAnswer(t) - 1))
AnswerSection(t)    == Trim(From(t, FirstBoldAnswer(t) + 4))

\* a `**Reasoning:** R **Answer:** A` pair whose sections have at least 11 characters
WellFormedBoldPair(t) ==
    /\ FirstBoldAnswer(t) # 0
    /\ Length(ReasoningSection(t)) >= 11
    /\ Length(AnswerSection(t)) >= 11

StartsWithAnswerLabel(t) ==
    BoldAnswerEnd(t, 1) # 0 \/ DashAnswerEnd(t, 1) # 0 \/ PlainAnswerEnd(t, 1) # 0
HasAnswerHeaderLine(t) == \E i \in 1..Len(t) : LineStart(t, i) /\ HeaderAnswerEnd(t, i) # 0
NoPromoMatch(t) == ~PromoMatch(t, TRUE).found /\ ~PromoMatch(t, FALSE).found
NoReasoningMatch(t) ==
    /\ ThinkingSpans(t, 1) = <<>>
    /\ ~(\E i \in 1..Len(t) : t[i] = BOPEN /\ \E j \in (i + 1)..Len(t) : t[j] = BCLOSE)
    /\ ~BoldMatch(t).found
    /\ ~PlainMatch(t, "Reasoning").found /\ ~PlainMatch(t, "Thinking").found
    /\ ~DashMatch(t).found /\ ~HeaderReasoningMatch(t).found

BoldPairResult ==
    /\ parsed.reasoning = ReasoningSection(rawText)
    /\ parsed.mainContent = AnswerSection(rawText)
    /\ IndexOf(parsed.mainContent, BoldAnswer) = 0

\* C1 as stated: every well-formed bold pair with sections of at least 11 characters
\* is split into exactly its two trimmed sections.
C1_AsStated == (parsed # NoResult /\ WellFormedBoldPair(rawText)) => BoldPairResult

\* the pair is the only structure in the text: no tag block, one bold answer label,
\* an answer section that neither starts with a further answer label, nor has an
\* answer header line, nor holds a promotional footer
PlainBoldPair(t) ==
    /\ WellFormedBoldPair(t)
    /\ ~HasTok(t, {TOPEN, BOPEN})
    /\ {j \in 1..Len(t) : BoldAnswerEnd(t, j) # 0} = {FirstBoldAnswer(t)}
    /\ ~StartsWithAnswerLabel(AnswerSection(t))
    /\ ~HasAnswerHeaderLine(AnswerSection(t))
    /\ NoPromoMatch(AnswerSection(t))

\* C1 (amended): a well-formed bold pair that is the only structure in the text is
\* split into reasoning = the trimmed text between the labels and mainContent = the
\* trimmed text after `**Answer:**`, with no `**Answer:**` left in mainContent.
C1_BoldPairSplit == (parsed # NoResult /\ PlainBoldPair(rawText)) => BoldPairResult

C1_Witness ==
    /\ parsed # NoResult /\ PlainBoldPair(rawText)
    /\ FirstBoldReasoning(rawText) > 1
    /\ Length(parsed.reasoning) = 11 /\ Length(parsed.mainContent) = 11

NoReasoningMarkers(t) == ~HasTok(t, {"Reasoning", "Thinking", TOPEN, TCLOSE, BOPEN, BCLOSE})
Count(t, T) == Cardinality({i \in 1..Len(t) : t[i] \in T})

SplitWithFooter(t, r, a) ==
    t = BoldReasoning \o <<SP>> \o r \o <<NL>> \o BoldAnswer \o <<SP>> \o a \o <<NL>> \o Footer(BULB)

\* C4: a bold Reasoning/Answer split (sections longer than 10 characters) followed by
\* the light-bulb footer yields reasoning = the reasoning section, mainContent = the
\* answer without the footer, and a promotion that starts with the light-bulb lead-in
\* and contains rabbitrank.com.
C4_AllThreeFields ==
    \A r \in ReasoningFillers, a \in AnswerFillers :
        (/\ parsed # NoResult /\ Length(r) > 10 /\ Length(a) > 10
         /\ SplitWithFooter(rawText, r, a)) =>
            /\ parsed.reasoning = r
            /\ parsed.mainContent = a
            /\ parsed.rabbitRankPromo # NULL
            /\ LitAt(parsed.rabbitRankPromo, 1, <<BULB, SP, STAR2, NEED, STAR2>>)
            /\ HasTok(parsed.rabbitRankPromo, {RRCOM})

\* the extraction degenerated: next to nothing left to show, and little reasoning
Degenerate(e) ==
    /\ Length(e.mainContent) < 5
    /\ (e.reasoning = NULL \/ Length(e.reasoning) < 20)

\* C5: when the extraction leaves a mainContent shorter than 5 characters and a
\* reasoning that is absent or shorter than 20 characters, the result is the raw text
\* as mainContent and no reasoning.
C5_FallbackToRawText ==
    (parsed # NoResult /\ Degenerate(Extracted(rawText))) =>
        /\ parsed.mainContent = rawText
        /\ parsed.reasoning = NULL

C5_Witness ==
    /\ parsed # NoResult /\ Degenerate(Extracted(rawText))
    /\ Extracted(rawText).reasoning # NULL
    /\ Extracted(rawText).mainContent # <<>>
    /\ parsed.mainContent = rawText

HasNonWhiteSpace(t) == \E i \in 1..Len(t) : ~IsWS(t[i])

\* C6 as stated: a raw text with a non-white-space character never yields an empty
\* mainContent.
C6_AsStated == (parsed # NoResult /\ HasNonWhiteSpace(rawText)) => parsed.mainContent # <<>>

\* C6 (amended): a raw text with a non-white-space character yields a non-empty
\* mainContent unless the reasoning returned is longer than 20 characters.
C6_NonEmptyUnlessLongReasoning ==
    (/\ parsed # NoResult /\ HasNonWhiteSpace(rawText)
     /\ ~(parsed.reasoning # NULL /\ Length(parsed.reasoning) > 20)) =>
        parsed.mainContent # <<>>

C6_Witness ==
    /\ parsed # NoResult /\ HasNonWhiteSpace(rawText)
    /\ Extracted(rawText).mainContent = <<>>
    /\ Extracted(rawText).reasoning # NULL
    /\ parsed.mainContent = rawText

\* ------------------------------------------------------------------------
\* Citations: properties
\* ------------------------------------------------------------------------
FirstSeen(a, uri) == CHOOSE i \in 1..Len(a) : a[i].uri = uri /\ \A j \in 1..(i - 1) : a[j].uri # uri

\* C7: the returned citation list holds every uri of the source list exactly once,
\* with the title of the uri's first occurrence, in first-seen order.
C7_DedupedSources ==
    sources # NotReturned =>
        LET web == WebSources(grounding.items)
        IN  /\ {sources[k].uri : k \in 1..Len(sources)} = {web[i].uri : i \in 1..Len(web)}
            /\ \A k, l \in 1..Len(sources) : k # l => sources[k].uri # sources[l].uri
            /\ \A k \in 1..Len(sources) : sources[k].title = web[FirstSeen(web, sources[k].uri)].title
            /\ \A k, l \in 1..Len(sources) :
                   k < l => FirstSeen(web, sources[k].uri) < FirstSeen(web, sources[l].uri)

C7_Witness ==
    /\ sources # NotReturned
    /\ Len(sources) = 2 /\ Len(WebSources(grounding.items)) = 3
    /\ \E i, j \in 1..Len(grounding.items) :
           /\ i < j /\ grounding.items[i].uri = grounding.items[j].uri
           /\ grounding.items[i].title # grounding.items[j].title

\* ------------------------------------------------------------------------
\* Incremental reveal: properties
\* ------------------------------------------------------------------------
CeilDiv(a, b) == (a + b - 1) \div b
Smaller(a, b) == IF a < b THEN a ELSE b

\* the interval of an enabled reveal was set for the mounted bubble
Revealing == bubbleMounted /\ typingDeps = "enabled"

\* C8 as stated: an enabled reveal of L characters is Complete after exactly
\* ceil(L/3) ticks.
C8_AsStated == Revealing => (isComplete <=> ticks >= CeilDiv(Len(mainText), ChunkSize))

\* C8 (amended): each tick consumes min(3, remaining) further characters, so all L
\* characters are consumed after ceil(L/3) ticks, and isComplete becomes true in the
\* tick after that, the (ceil(L/3) + 1)-th.
C8_CompleteOneTickLater ==
    Revealing =>
        /\ index = Smaller(Len(mainText), ChunkSize * ticks)
        /\ ticks <= CeilDiv(Len(mainText), ChunkSize) + 1
        /\ isComplete <=> ticks = CeilDiv(Len(mainText), ChunkSize) + 1
        /\ timerLive <=> ~isComplete

C8_Witness ==
    /\ Revealing /\ isComplete
    /\ Len(mainText) = 5 /\ ticks = 3 /\ displayedText = mainText

\* C9: once the reveal of the message has completed, no bubble of the message, this
\* one or one mounted later, runs a reveal timer again or, its effects run, shows
\* less than the full text.
C9_CompleteIsSticky ==
    (revealDone /\ bubbleMounted /\ typingDeps # "none") =>
        (~timerLive /\ contentToShow = mainText)

\* ------------------------------------------------------------------------
\* Speech playback: properties
\* ------------------------------------------------------------------------
\* nothing of the speech controller is in flight
SpeechQuiet ==
    /\ ~synthPending
    /\ effectUrl = audioUrl
    /\ \A a \in 1..Len(audios) : audios[a].status # "starting" /\ audios[a].promise # "rejected"

\* the one request made from Idle succeeded on the mounted bubble, and its audio has
\* neither ended nor failed to load
FirstSynthesisDone ==
    /\ bubbleMounted /\ toggles = 1 /\ urlCount = 1
    /\ \A a \in 1..Len(audios) : audios[a].status \notin {"ended", "error"}

\* C10: after a synthesis requested from Idle succeeded on the mounted bubble, the URL
\* is cached, isSpeaking is false again, and the controller settles in Playing:
\* isPlaying is true and the audio started for the URL is playing.
C10_SettlesInPlaying ==
    (FirstSynthesisDone /\ SpeechQuiet) =>
        /\ audioUrl = 1
        /\ ~isSpeaking
        /\ isPlaying
        /\ \E a \in 1..Len(audios) : audios[a].url = audioUrl /\ audios[a].status = "playing"

\* an Audio element that is playing or about to
Sounding(a) == audios[a].status \in {"starting", "playing"}

\* C11: once the bubble of the message is gone, no audio of the message is playing or
\* starting to play.
C11_NoPlaybackAfterRemoval ==
    ~bubbleMounted => \A a \in 1..Len(audios) : ~Sounding(a)

\* C12: once the bubble of the message is gone, every object URL synthesized for the
\* message has been revoked.
C12_HandlesReleased ==
    ~bubbleMounted => \A u \in 1..urlCount : u \in revokedUrls

\* C13: generateSpeech succeeds at most once for the message, and no step calls it
\* while a URL is cached.
C13_SynthesizedOnce ==
    /\ [](urlCount <= 1)
    /\ [][audioUrl # 0 => synthCalls' = synthCalls]_vars

\* the cached URL was played a second time
C13_Witness ==
    /\ bubbleMounted /\ urlCount = 1 /\ audioUrl = 1 /\ synthCalls = 1
    /\ toggles = MaxToggles
    /\ \E a, b \in 1..Len(audios) : a # b /\ audios[a].url = 1 /\ audios[b].url = 1

C15_OneLiveTimer ==
    /\ liveTimers = Live(timerLive)
    /\ ~bubbleMounted => liveTimers = 0

\* the text changed while the interval of the previous text was live
C15_Witness ==
    /\ bubbleMounted /\ textChanges = 1 /\ timerLive /\ liveTimers = 1
    /\ ticks = 0 /\ index = 0 /\ Len(mainText) = 2 /\ ~isComplete /\ ~hasAnimated

\* ------------------------------------------------------------------------
\* Session: properties
\* ------------------------------------------------------------------------
\* C16: at most one generateText request is awaited at any time, and a submit attempt
\* made while isProcessing is true, from whichever entry point, starts no request and
\* appends no message.
C16_OneRequestInFlight ==
    /\ [](Cardinality(inFlight) <= 1 /\ (isProcessing <=> inFlight # {}))
    /\ [][(isProcessing /\ submitTries' # submitTries) =>
             UNCHANGED <<messages, inFlight, nextReq, isProcessing>>]_vars

\* a quick action with a prompt was refused because a request was awaited
C16_Witness ==
    /\ isProcessing /\ Cardinality(inFlight) = 1
    /\ lastSubmit = [entry |-> "quick", busy |-> TRUE, accepted |-> FALSE]

\* ------------------------------------------------------------------------
\* Export: properties
\* ------------------------------------------------------------------------
\* the tokens between the first `open` and the first `close` after it
Between(s, open, close) ==
    IF IndexOf(s, <<open>>) \in 1..Len(s) /\ IndexOf(From(s, IndexOf(s, <<open>>)), <<close>>) \in 2..Len(s)
    THEN SubSeq(s, IndexOf(s, <<open>>) + 1,
                IndexOf(s, <<open>>) + IndexOf(From(s, IndexOf(s, <<open>>)), <<close>>) - 2)
    ELSE <<>>

\* the texts of the cells of a row element
RECURSIVE CellTexts(_, _, _)
CellTexts(row, open, close) ==
    IF IndexOf(row, <<open>>) \notin 1..Len(row) THEN <<>>
    ELSE <<Between(row, open, close)>>
         \o CellTexts(From(row, IndexOf(row, <<open>>) + IndexOf(From(row, IndexOf(row, <<open>>)), <<close>>)),
                      open, close)

\* the rows of a section, each as the texts of its cells
RECURSIVE RowsIn(_, _, _)
RowsIn(sec, open, close) ==
    IF IndexOf(sec, <<"<tr>">>) \notin 1..Len(sec) THEN <<>>
    ELSE <<CellTexts(Between(sec, "<tr>", "</tr>"), open, close)>>
         \o RowsIn(From(sec, IndexOf(sec, <<"</tr>">>) + 1), open, close)

Words(cells) == [j \in 1..Len(cells) |-> <<cells[j]>>]

SimpleTable(t) == t.sep /\ Len(t.rows) = 1

\* C17: for a markdown text that is a simple table (header row, dash-separator row, one
\* data row) markdownToHTML gives one table element with exactly one header row holding
\* the header cell texts and exactly one body row holding the data cell texts, in the
\* original column order.
C17_SimpleTable ==
    (printed # NULL /\ SimpleTable(mdTable)) =>
        /\ Count(printed, {"<table>"}) = 1
        /\ RowsIn(Between(printed, "<thead>", "</thead>"), "<th>", "</th>") = <<Words(mdTable.header)>>
        /\ RowsIn(Between(printed, "<tbody>", "</tbody>"), "<td>", "</td>") = <<Words(mdTable.rows[1])>>

\* ------------------------------------------------------------------------
\* Section extractor: the fields against the raw text, the order of the splits
\* ------------------------------------------------------------------------
TextOf(field) == IF field = NULL THEN <<>> ELSE field

\* C18: the returned fields are disjoint parts of the raw text: mainContent holds neither
\* the span returned as promotion nor the span returned as reasoning, so the three fields
\* together are no longer than the raw text.
C18_DisjointParts ==
    parsed # NoResult =>
        Length(TextOf(parsed.reasoning)) + Length(parsed.mainContent)
            + Length(TextOf(parsed.rabbitRankPromo)) <= Length(rawText)

\* what the label-based splits start from: lines 89-110
AfterTags(text) == ExtractBracketTags(ExtractThinkingTags([reasoning |-> NULL, mainContent |-> text]))

\* the matches of the five patterns in the order of the source
LabelMatches(s) ==
    <<BoldMatch(s), PlainMatch(s, "Reasoning"), PlainMatch(s, "Thinking"), DashMatch(s), HeaderMatch(s)>>

BothLong(m) == m.found /\ Length(m.reasoningText) > 10 /\ Length(m.answerText) > 10

\* the first pattern, of those tried, whose match has two long sections (0: none)
FirstLong(ms, tried) ==
    IF \E k \in tried : BothLong(ms[k]) THEN Min({k \in tried : BothLong(ms[k])}) ELSE 0

\* the outcome of the splits when pattern k is the one accepted (0: none is)
SplitOutcome(st, ms, k) ==
    IF k = 0 THEN st
    ELSE [reasoning   |-> IF k = 1 /\ ~Falsy(st.reasoning) THEN Join2(st.reasoning, ms[k].reasoningText)
                          ELSE ms[k].reasoningText,
          mainContent |-> ms[k].answerText]

\* C19 as stated: the first pattern in the order bold, plain, Thinking, dash, header whose
\* match has a reasoning text and an answer text longer than 10 characters is the one
\* split applied; matches that fail this change nothing.
C19_AsStated ==
    parsed # NoResult =>
        ExtractReasoning(rawText) =
            SplitOutcome(AfterTags(rawText), LabelMatches(AfterTags(rawText).mainContent),
                         FirstLong(LabelMatches(AfterTags(rawText).mainContent), 1..5))

\* the patterns tried: all five when the tags gave no reasoning, the bold one alone otherwise
Tried(st) == IF Falsy(st.reasoning) THEN 1..5 ELSE {1}

\* C19 (amended): as above, but when the <thinking> or [Reasoning] tags already gave a
\* reasoning only the bold pattern is tried.
C19_SplitCascade ==
    parsed # NoResult =>
        ExtractReasoning(rawText) =
            SplitOutcome(AfterTags(rawText), LabelMatches(AfterTags(rawText).mainContent),
                         FirstLong(LabelMatches(AfterTags(rawText).mainContent), Tried(AfterTags(rawText))))

\* a bold match with a short section was discarded and the dash split behind it applied
C19_Witness ==
    /\ parsed # NoResult
    /\ Falsy(AfterTags(rawText).reasoning)
    /\ BoldMatch(rawText).found /\ ~BothLong(BoldMatch(rawText))
    /\ ~PlainMatch(rawText, "Reasoning").found /\ ~PlainMatch(rawText, "Thinking").found
    /\ BothLong(DashMatch(rawText))
    /\ ExtractReasoning(rawText).reasoning = DashMatch(rawText).reasoningText
    /\ ExtractReasoning(rawText).mainContent = DashMatch(rawText).answerText

\* ------------------------------------------------------------------------
\* Incremental reveal: messages that are not animated
\* ------------------------------------------------------------------------
\* the message is one the reveal is disabled for: a user message, a mainContent of 3000
\* characters or more, a message whose reveal completed before
NotAnimated == msgSender = "user" \/ Len(mainText) >= 3000 \/ revealDone

\* C20: for a user message, for an assistant message whose mainContent has 3000 or more
\* characters and for a message that already completed its reveal, a bubble whose typing
\* effect has run has no reveal timer, has isComplete true and shows the full
\* mainContent.
C20_ShownAtOnce ==
    (bubbleMounted /\ typingDeps # "none" /\ NotAnimated) =>
        /\ ~timerLive /\ liveTimers = 0
        /\ isComplete
        /\ contentToShow = mainText

\* ------------------------------------------------------------------------
\* Incremental reveal: the text displayed
\* ------------------------------------------------------------------------
\* a step inside the reveal of one mainContent by one bubble
SameReveal == Revealing /\ Revealing' /\ mainText' = mainText /\ ~hasAnimated'

\* C21: while one mainContent of length L is revealed, the length of the displayed text
\* never decreases from one step to the next and never exceeds L.
C21_RevealedLengthGrows ==
    /\ [](Revealing => Len(displayedText) <= Len(mainText))
    /\ [][SameReveal => Len(displayedText') >= Len(displayedText)]_vars

\* two ticks queued their updaters and the render applied both
C21_Witness ==
    /\ Revealing /\ ~isComplete /\ pendingChunks = <<>>
    /\ Len(mainText) = 7 /\ ticks = 2 /\ index = 6
    /\ displayedText # <<>> /\ displayedText # SubSeq(mainText, 1, 6)

\* ------------------------------------------------------------------------
\* Session: the log
\* ------------------------------------------------------------------------
\* the log was replaced as a whole: by the initial load or by new chat / clear
Replaced == pageMounted' # pageMounted \/ newChats' # newChats

\* the log is the one before, or the one before with one message appended
SameOrAppended ==
    \/ messages' = messages
    \/ Len(messages') = Len(messages) + 1 /\ SubSeq(messages', 1, Len(messages)) = messages

\* C22: every session operation other than new chat / clear and the initial load leaves
\* the id, sender and text of every existing message as they are and changes the log
\* only by appending one message at its end; the pin, search, focus and export
\* operations leave the log as it is.
C22_AppendOnly ==
    [][/\ ~Replaced => SameOrAppended
       /\ viewOps' # viewOps => messages' = messages]_vars

\* a message was pinned, a request answered after it, and the log still starts with the
\* stored messages
C22_Witness ==
    /\ Len(messages) = 4 /\ viewOps = 1 /\ pinnedMessageIds # <<>>
    /\ messages[1].req = 0 /\ messages[4].sender = "ai" /\ messages[4].req = 1

LastMessage(log) == log[Len(log)]

\* the step accepts a submit
Accepts == nextReq' = nextReq + 1

\* the step settles request r
Settles(r) == r \in inFlight /\ r \notin inFlight'

\* C23: an accepted submit appends exactly one user message in the same step and sets
\* isProcessing; the step that settles its request appends exactly one assistant message,
\* the response text or a text beginning **Error:** together with the error toast, and
\* sets isProcessing to false.
C23_SubmitAndSettle ==
    [][/\ Accepts =>
            /\ Len(messages') = Len(messages) + 1
            /\ SubSeq(messages', 1, Len(messages)) = messages
            /\ LastMessage(messages').sender = "user" /\ LastMessage(messages').req = nextReq'
            /\ isProcessing'
       /\ \A r \in inFlight : Settles(r) =>
            /\ Len(messages') = Len(messages) + 1
            /\ SubSeq(messages', 1, Len(messages)) = messages
            /\ LastMessage(messages').sender = "ai" /\ LastMessage(messages').req = r
            /\ \/ LastMessage(messages').text = "answer" /\ toastMessage' = toastMessage
               \/ /\ LastMessage(messages').text = "**Error:**"
                  /\ toastMessage' = "Failed to generate response"
            /\ ~isProcessing']_vars

\* a request was accepted after a stored session was loaded, and it failed
C23_Witness ==
    /\ Len(messages) = 4 /\ ~isProcessing /\ inFlight = {} /\ nextReq = 1
    /\ messages[3].sender = "user" /\ messages[3].req = 1
    /\ messages[4].text = "**Error:**" /\ messages[4].req = 1
    /\ toastMessage = "Failed to generate response"

\* C27: every assistant message of the log is immediately preceded by the user message
\* whose request produced it.
C27_AnswerFollowsQuestion ==
    \A i \in 1..Len(messages) :
        messages[i].sender = "ai" =>
            /\ i > 1
            /\ messages[i - 1].sender = "user"
            /\ messages[i - 1].req = messages[i].req

C25_DisplayedIsPrefix ==
    (Revealing /\ pendingChunks = <<>>) =>
        /\ displayedText = SubSeq(mainText, 1, Len(displayedText))
        /\ isComplete => contentToShow = mainText


\* ------------------------------------------------------------------------
\* Speech playback: the isPlaying flag
\* ------------------------------------------------------------------------
\* C26: whenever isPlaying is true, audioRef holds an audio element of the cached
\* handle and that element is playing (not paused, ended, failed or discarded).
C26_PlayingFlagIsTrue ==
    (bubbleMounted /\ isPlaying) =>
        /\ audioRef # 0
        /\ audios[audioRef].url = audioUrl
        /\ audios[audioRef].status = "playing"


\* ------------------------------------------------------------------------
\* Toast: the close callbacks
\* ------------------------------------------------------------------------
\* C29: a close callback scheduled for a toast, by its auto-dismiss timer or by its
\* dismiss button, clears the toast only if no toast was shown after it was scheduled.
C29_CloseClearsOwnToast ==
    [][\A c \in closeTimers \ closeTimers' :
          (toastMessage # "null" /\ toastMessage' = "null") => c.toast = toastSeq]_vars


\* ------------------------------------------------------------------------
\* exportToPDF: code blocks and raw markup
\* ------------------------------------------------------------------------
\* the tokens of t before position i that are in T
CountBefore(t, i, T) == Cardinality({j \in 1..(i - 1) : t[j] \in T})

\* C24: the export of a well-formed fenced code block holds the body in one pre/code
\* element, which is inside no paragraph and has no line-break element in it.
C24_FencedBlockIsOpaque ==
    \A d \in FencedBlocks :
        (printed # NULL /\ content = FencedText(d)) =>
            /\ Count(printed, {"<pre>"}) = 1
            /\ \E i \in 1..Len(printed) :
                  /\ LitAt(printed, i, <<"<pre>", "<code>">> \o d.body \o <<NL, "</code>", "</pre>">>)
                  /\ CountBefore(printed, i, {"<p>"}) = CountBefore(printed, i, {"</p>"})

\* C30: the exported HTML holds no <, > or & of the markdown unescaped.
C30_MarkupEscaped ==
    printed # NULL => \A j \in 1..Len(printed) : printed[j] \notin {"<", ">", "&"}

====
